---------------------------- MODULE Spec2Model ----------------------------
(***************************************************************************)
(* A model of the query orchestration engine (solar.py) and of the bounded *)
(* conversation memory (memory.py).                                        *)
(*                                                                         *)
(* Text is modelled as a sequence of one-character strings, so that        *)
(* trimming, upper-casing, slicing, regular-expression matching and        *)
(* concatenation are computed the way the code computes them.              *)
(***************************************************************************)
EXTENDS Integers, Sequences, FiniteSets, TLC

VARIABLES
    jResp,      \* _check_search_needed: the outcome of its completion call
    jOut,       \* _check_search_needed: the verdict returned ("none" before the call)
    xResp,      \* _extract_search_queries_fast: the outcome of its completion call
    xOut,       \* _extract_search_queries_fast: the list returned, once it is
    sStatusOk,  \* _stream_request: whether the response has status 200
    sEvents,    \* _stream_request: the events the server sends
    sUpd,       \* _stream_request: the on_update callback ("none", "ok", "raise")
    sPos,       \* _stream_request: the number of events read
    sSt,        \* _stream_request: full_content, the on_update calls, the loop's state
    maxWords,       \* MemoryManager.max_words
    summaryTarget,  \* MemoryManager.summary_target
    llmGiven,       \* MemoryManager.llm_function is set
    memory,         \* MemoryManager.memory
    disk,           \* the content of memory_file
    clock,          \* the number of operations so far: datetime.now()
    memOp,          \* the last public operation of the MemoryManager
    memPre,         \* whether the last operation summarized, and the memory just before it did
    llmDid,         \* what the LLM function did in the last operation
    llmOut,         \* and what it returned
    saveDid,        \* how the last save_memory ended ("none" before the first)
    rResp,      \* grounded retrieval, here and below also that of complete: what each search request answers
    rDone,      \* grounded retrieval: the search futures that have finished
    rAll,       \* grounded retrieval: all_search_results
    rTaken,     \* grounded retrieval: the number of futures whose result was taken
    rSources,   \* grounded retrieval: sources
    rPc,        \* grounded retrieval: where _get_search_grounded_response stands
    oStream,    \* intelligent_complete: the stream argument
    oKey,       \* intelligent_complete: whether TAVILY_API_KEY is set
    oCb,        \* intelligent_complete: each callback: "none", "ok" or "raise"
    oPc,        \* intelligent_complete: where the calling thread stands
    oVerdict,   \* intelligent_complete: search_needed_future ("none" until done)
    oQueries,   \* intelligent_complete: search_queries_future
    oCalls,     \* intelligent_complete: the callback invocations so far, in order
    oSources,   \* _get_search_grounded_response: sources
    oG,         \* the grounded completion request: what was served, how it ended
    oD,         \* the last direct-answer request: what was served, how it ended
    oResult,    \* intelligent_complete: the dict to return
    shared,     \* two MemoryManager instances on one file: their memories and what they did
    cite,       \* the citation engine: the text, the sources and the result
    context,    \* get_context: its argument and what it returned
    retry,      \* send_message_with_retry: what send_func does, the attempts, the outcome
    hook        \* telegram_webhook: one request, the bot, the status message, the response

judgeVars == <<jResp, jOut>>

extractVars == <<xResp, xOut>>

streamVars == <<sStatusOk, sEvents, sUpd, sPos, sSt>>

memVars == <<maxWords, summaryTarget, llmGiven, memory, disk, clock, memOp, memPre, llmDid, llmOut, saveDid>>

retrVars == <<rResp, rDone, rAll, rTaken, rSources, rPc>>

orchVars == <<oStream, oKey, oCb, oPc, oVerdict, oQueries, oCalls, oSources, oG, oD, oResult>>

sideVars == <<shared, cite, context, retry, hook>>

vars == <<judgeVars, extractVars, streamVars, memVars, retrVars, orchVars, sideVars>>

(***************************************************************************)
(* Generic helpers                                                         *)
(***************************************************************************)
Min(a, b) == IF a <= b THEN a ELSE b

Max(a, b) == IF a >= b THEN a ELSE b

\* s[:n] of Python, n >= 0
Take(s, n) == SubSeq(s, 1, Min(n, Len(s)))

\* s[-n:] of Python, n > 0
LastN(s, n) == SubSeq(s, Max(1, Len(s) - n + 1), Len(s))

\* s[:-n] of Python, n > 0
DropLastN(s, n) == SubSeq(s, 1, Max(0, Len(s) - n))

SeqsUpTo(S, n) == UNION {[1..k -> S] : k \in 0..n}

\* `c in s` for a character c of a text s
Contains(s, c) == \E i \in 1..Len(s) : s[i] = c

\* the result of a call: not produced yet, or the value returned
Pending == [done |-> FALSE, value |-> <<>>]

Result(v) == [done |-> TRUE, value |-> v]

\* the outcome of a call of SolarAPI.complete: the text returned, or an exception
Returned(text) == [ok |-> TRUE, text |-> text]

Raised == [ok |-> FALSE, text |-> <<>>]

\* the user's query, as text
UserQuery == <<"u">>

(***************************************************************************)
(* SolarAPI._check_search_needed                                 solar.py  *)
(***************************************************************************)
\* str.upper on one character
UpperChar(c) ==
    CASE c = "y" -> "Y"
      [] c = "n" -> "N"
      [] c = "a" -> "A"
      [] OTHER -> c

Upper(s) == [i \in 1..Len(s) |-> UpperChar(s[i])]

\* the whitespace of str.split and str.strip that the texts here have
IsSpace(c) == c \in {" ", "\n"}

RECURSIVE LStrip(_)
LStrip(s) == IF s # <<>> /\ IsSpace(Head(s)) THEN LStrip(Tail(s)) ELSE s

RECURSIVE RStrip(_)
RStrip(s) ==
    IF s # <<>> /\ IsSpace(s[Len(s)]) THEN RStrip(SubSeq(s, 1, Len(s) - 1)) ELSE s

\* str.strip
Strip(s) == RStrip(LStrip(s))

\* the mutant of ParseVerdict that looks for N first
ParseVerdictNFirst(clean) ==
    IF Contains(Take(clean, 3), "N") THEN "N"
    ELSE IF Contains(Take(clean, 3), "Y") THEN "Y"
    ELSE "N"

\* lines 149-155: the if / elif / else over clean_response[:3]
ParseVerdict(clean) ==
    IF Contains(Take(clean, 3), "Y") THEN "Y"
    ELSE IF Contains(Take(clean, 3), "N") THEN "N"
    ELSE "N"

\* the mutant of CheckSearchNeeded that asks for a search when complete raises
CheckSearchNeededFailsOpen(resp) ==
    IF resp.ok THEN ParseVerdict(Upper(Strip(resp.text))) ELSE "Y"

\* the try block and its except: an exception of complete gives 'N'
CheckSearchNeeded(resp) ==
    IF resp.ok THEN ParseVerdict(Upper(Strip(resp.text))) ELSE "N"

(***************************************************************************)
(* SolarAPI._extract_search_queries_fast                         solar.py  *)
(***************************************************************************)
\* the least index >= from at which c occurs in s, 0 if there is none
IndexFrom(s, c, from) ==
    IF \E i \in from..Len(s) : s[i] = c
    THEN CHOOSE i \in from..Len(s) : s[i] = c /\ \A k \in from..(i - 1) : s[k] # c
    ELSE 0

\* re.search(r'\[(.*?)\]', response, re.DOTALL): the leftmost '[' that a ']'
\* follows, and the shortest text up to a ']'
BracketSearch(text) ==
    LET a == IndexFrom(text, "[", 1)
        b == IF a = 0 THEN 0 ELSE IndexFrom(text, "]", a + 1)
    IN  IF a = 0 \/ b = 0
        THEN [found |-> FALSE, group |-> <<>>]
        ELSE [found |-> TRUE, group |-> SubSeq(text, a + 1, b - 1)]

\* json.loads('[' + body + ']') for a body that holds no ']': a comma-separated
\* list of string literals and numbers, with optional blanks; anything else is
\* a JSONDecodeError. st is the scanner's state, cur the element being read.
RECURSIVE ScanArray(_, _, _, _, _)
ScanArray(body, i, st, cur, items) ==
    IF i > Len(body)
    THEN CASE st = "start" -> [ok |-> TRUE, items |-> items]
           [] st = "num"   -> [ok |-> TRUE, items |-> Append(items, cur)]
           [] st = "after" -> [ok |-> TRUE, items |-> items]
           [] OTHER        -> [ok |-> FALSE, items |-> <<>>]
    ELSE LET c == body[i]
             bad == [ok |-> FALSE, items |-> <<>>]
         IN  CASE st \in {"start", "elem"} ->
                    IF c = "\"" THEN ScanArray(body, i + 1, "str", <<>>, items)
                    ELSE IF c = "1" THEN ScanArray(body, i + 1, "num", <<c>>, items)
                    ELSE IF c = " " THEN ScanArray(body, i + 1, st, cur, items)
                    ELSE bad
               [] st = "str" ->
                    IF c = "\"" THEN ScanArray(body, i + 1, "after", <<>>, Append(items, cur))
                    ELSE ScanArray(body, i + 1, "str", Append(cur, c), items)
               [] st = "num" ->
                    IF c = "1" THEN ScanArray(body, i + 1, "num", Append(cur, c), items)
                    ELSE IF c = "," THEN ScanArray(body, i + 1, "elem", <<>>, Append(items, cur))
                    ELSE IF c = " " THEN ScanArray(body, i + 1, "after", <<>>, Append(items, cur))
                    ELSE bad
               [] OTHER ->
                    IF c = "," THEN ScanArray(body, i + 1, "elem", <<>>, items)
                    ELSE IF c = " " THEN ScanArray(body, i + 1, "after", <<>>, items)
                    ELSE bad

JsonLoadsArray(body) == ScanArray(body, 1, "start", <<>>, <<>>)

\* lines 229-235: the parsed array cut to 3, or the original query when no
\* bracket pair is found; a JSONDecodeError lands in the except of line 236
QueriesFromText(text, user_query) ==
    LET m == BracketSearch(text)
        parsed == JsonLoadsArray(m.group)
    IN  IF m.found
        THEN IF parsed.ok THEN Take(parsed.items, 3) ELSE <<user_query>>
        ELSE <<user_query>>

\* the try block and its except: an exception of complete gives [user_query]
ExtractSearchQueriesFast(resp, user_query) ==
    IF resp.ok THEN QueriesFromText(resp.text, user_query) ELSE <<user_query>>

(***************************************************************************)
(* SolarAPI._get_search_grounded_response: the search results    solar.py  *)
(*                                                                         *)
(* A url is a number: 0 stands for the empty string (and for a result      *)
(* without a url, which result.get('url', '') reads as the empty string),  *)
(* n > 0 for one address. A result carries its url and a title.            *)
(***************************************************************************)
\* solar.py line 301: unique_results[:15]
MaxSources == 15

\* solar.py line 368: max_results=8
MaxResults == 8

\* solar.py line 277: search_queries[:3]
MaxQueries == 3

SearchResult(url, title) == [url |-> url, title |-> title]

\* what _tavily_search returns: the parsed body, a dict with its results;
\* {"results": []} after an error; or a body that is JSON but no dict
Found(results) == [dict |-> TRUE, results |-> results]

NoResults == Found(<<>>)

NotADict == [dict |-> FALSE, results |-> <<>>]

\* the mutant of UniqueFrom that lets a later result replace an earlier one
\* with the same url
RECURSIVE UniqueFromLastWins(_, _, _, _)
UniqueFromLastWins(all, i, seen_urls, unique) ==
    IF i > Len(all) THEN unique
    ELSE LET url == all[i].url
         IN  IF url # 0 /\ url \notin seen_urls
             THEN UniqueFromLastWins(all, i + 1, seen_urls \cup {url}, Append(unique, all[i]))
             ELSE UniqueFromLastWins(all, i + 1, seen_urls,
                      [k \in 1..Len(unique) |->
                          IF unique[k].url = url THEN all[i] ELSE unique[k]])

\* lines 288-294: the loop over all_search_results from index i on
RECURSIVE UniqueFrom(_, _, _, _)
UniqueFrom(all, i, seen_urls, unique) ==
    IF i > Len(all) THEN unique
    ELSE LET url == all[i].url
         IN  IF url # 0 /\ url \notin seen_urls
             THEN UniqueFrom(all, i + 1, seen_urls \cup {url}, Append(unique, all[i]))
             ELSE UniqueFrom(all, i + 1, seen_urls, unique)

UniqueResults(all) == UniqueFrom(all, 1, {}, <<>>)

\* lines 301-315: the source built from the i-th unique result
Source(i, result) == [id |-> i, title |-> result.title, url |-> result.url]

\* the mutant of SourcesOf that ranks the sources from 0, as enumerate does
\* without its second argument
SourcesOfFromZero(unique) ==
    [i \in 1..Min(MaxSources, Len(unique)) |-> Source(i - 1, unique[i])]

\* lines 300-315: sources
SourcesOf(unique) ==
    [i \in 1..Min(MaxSources, Len(unique)) |-> Source(i, unique[i])]

(***************************************************************************)
(* SolarAPI._stream_request                                      solar.py  *)
(*                                                                         *)
(* A JSON value is <<type, content>>: the content is a text for a string,  *)
(* a sequence for a list, a sequence of <<key, value>> pairs for an        *)
(* object.                                                                 *)
(***************************************************************************)
JNull == <<"null", 0>>

JNum(n) == <<"num", n>>

JStr(s) == <<"str", s>>

JList(l) == <<"list", l>>

JObj(f) == <<"obj", f>>

JType(x) == x[1]

JVal(x) == x[2]

JEmptyObj == JObj(<<>>)

\* key in obj, obj[key] and obj.get(key, default) for a dict
HasKey(obj, key) == \E i \in 1..Len(JVal(obj)) : JVal(obj)[i][1] = key

GetKey(obj, key) == JVal(obj)[CHOOSE i \in 1..Len(JVal(obj)) : JVal(obj)[i][1] = key][2]

\* needle in hay, for two texts
IsSubstr(needle, hay) ==
    \E i \in 0..(Len(hay) - Len(needle)) :
        \A k \in 1..Len(needle) : hay[i + k] = needle[k]

ChoicesText == <<"c", "h", "o", "i", "c", "e", "s">>

ContentText == <<"c", "o", "n", "t", "e", "n", "t">>

\* Python's `key in x`: a TypeError for a number or null
InRaises(x) == JType(x) \in {"num", "null"}

InHolds(key, keyText, x) ==
    CASE JType(x) = "obj"  -> HasKey(x, key)
      [] JType(x) = "list" -> \E i \in 1..Len(JVal(x)) : JVal(x)[i] = JStr(keyText)
      [] JType(x) = "str"  -> IsSubstr(keyText, JVal(x))
      [] OTHER        -> FALSE

\* Python's truth value
Truthy(x) ==
    CASE JType(x) = "null" -> FALSE
      [] JType(x) = "num"  -> JVal(x) # 0
      [] OTHER        -> JVal(x) # <<>>

Skip == [kind |-> "skip", content |-> <<>>]

Throw == [kind |-> "raise", content |-> <<>>]

Emit(c) == [kind |-> "delta", content |-> c]

\* lines 583-584 on delta: "content" in delta and delta["content"]
DeltaStep(delta) ==
    IF InRaises(delta) THEN Throw
    ELSE IF ~InHolds("content", ContentText, delta) THEN Skip
    ELSE IF JType(delta) # "obj" THEN Throw            \* delta["content"] on a list or a str
    ELSE IF ~Truthy(GetKey(delta, "content")) THEN Skip
    ELSE IF JType(GetKey(delta, "content")) # "str" THEN Throw   \* full_content += content
    ELSE Emit(JVal(GetKey(delta, "content")))

\* line 582 on chunk["choices"][0]: .get("delta", {}) needs a dict
ChoiceStep(choice) ==
    IF JType(choice) # "obj" THEN Throw
    ELSE IF HasKey(choice, "delta") THEN DeltaStep(GetKey(choice, "delta"))
    ELSE DeltaStep(JEmptyObj)

\* lines 581-586 on a parsed chunk: what it contributes, or the exception
ChunkStep(chunk) ==
    IF InRaises(chunk) THEN Throw
    ELSE IF ~InHolds("choices", ChoicesText, chunk) THEN Skip
    ELSE IF JType(chunk) # "obj" THEN Throw            \* chunk["choices"] on a list or a str
    ELSE LET choices == GetKey(chunk, "choices")
         IN  IF JType(choices) \in {"num", "null"} THEN Throw     \* len()
             ELSE IF JType(choices) = "obj"
                  THEN (IF JVal(choices) = <<>> THEN Skip ELSE Throw)   \* choices[0]: KeyError
             ELSE IF JVal(choices) = <<>> THEN Skip
             ELSE IF JType(choices) = "str" THEN ChoiceStep(JStr(<<JVal(choices)[1]>>))
             ELSE ChoiceStep(JVal(choices)[1])

\* an event of the stream: the [DONE] sentinel, data that is not JSON, a JSON
\* chunk, or the connection failing while the next event is read
EvDone == <<"done", JNull>>

EvBad == <<"bad", JNull>>

EvIOError == <<"ioerror", JNull>>

EvJson(x) == <<"json", x>>

EvKind(ev) == ev[1]

EvData(ev) == ev[2]

\* the state of one _stream_request: full_content, the chunks handed to
\* on_update so far and where the loop stands
StreamStart == [state |-> "open", full |-> <<>>, updates |-> <<>>, error |-> <<>>]

\* str(e) of what the request can raise: line 566 and line 554, the connection,
\* an operation on a chunk of the wrong shape, the on_update callback
StatusError == <<"API request failed with status code">>

ConnectionError == <<"connection error">>

ChunkError == <<"chunk error">>

CallbackError == <<"callback error">>

\* the request is left on an exception
Fail(st, error) == [st EXCEPT !.state = "raised", !.error = error]

\* one round of the loop of lines 575-592; upd is the on_update callback:
\* "none" (not given), "ok" or "raise"
StreamStep(st, ev, upd) ==
    CASE EvKind(ev) = "done"    -> [st EXCEPT !.state = "returned"]
      [] EvKind(ev) = "ioerror" -> Fail(st, ConnectionError)
      [] EvKind(ev) = "bad"     -> st
      [] OTHER ->
           LET r == ChunkStep(EvData(ev))
           IN  CASE r.kind = "skip"  -> st
                 [] r.kind = "raise" -> Fail(st, ChunkError)
                 [] OTHER ->
                      [state   |-> IF upd = "raise" THEN "raised" ELSE st.state,
                       full    |-> st.full \o r.content,
                       updates |-> IF upd = "none" THEN st.updates
                                   ELSE Append(st.updates, r.content),
                       error   |-> IF upd = "raise" THEN CallbackError ELSE st.error]

\* the stream ends without a sentinel: the loop is left, full_content returned
StreamEnd(st) == [st EXCEPT !.state = "returned"]

\* the whole of _stream_request on a response with status 200
RECURSIVE StreamRun(_, _, _)
StreamRun(st, events, upd) ==
    IF st.state # "open" THEN st
    ELSE IF events = <<>> THEN StreamEnd(st)
    ELSE StreamRun(StreamStep(st, Head(events), upd), Tail(events), upd)

(***************************************************************************)
(* SolarAPI.complete without search grounding, _standard_request solar.py  *)
(***************************************************************************)
\* what the completion service answers to one request: a status other than
\* 200, a stream of events, or a body with the content of the first choice
Refused == [status |-> "refused", events |-> <<>>, text |-> <<>>]

Streamed(events) == [status |-> "ok", events |-> events, text |-> <<>>]

Body(text) == [status |-> "ok", events |-> <<>>, text |-> text]

\* lines 542-554
StandardRequest(resp) ==
    IF resp.status = "ok"
    THEN [StreamStart EXCEPT !.state = "returned", !.full = resp.text]
    ELSE Fail(StreamStart, StatusError)

\* lines 556-594
StreamRequest(resp, on_update) ==
    IF resp.status # "ok"
    THEN Fail(StreamStart, StatusError)
    ELSE StreamRun(StreamStart, resp.events, on_update)

\* lines 507-527, search_grounding being False
Complete(resp, stream, on_update) ==
    IF stream THEN StreamRequest(resp, on_update) ELSE StandardRequest(resp)

(***************************************************************************)
(* SolarAPI._get_direct_answer, SolarAPI.intelligent_complete    solar.py  *)
(***************************************************************************)
\* line 182
Apology(detail) ==
    <<"I apologize, but I encountered an error processing your request: ">> \o detail

\* line 266
MockNote == <<" (Note: Using mock data - set TAVILY_API_KEY for real search)">>

\* lines 248-257
MockSources == <<[id |-> 1, title |-> "Mock Search Result", url |-> "https://example.com/mock"]>>

\* the mutant of GetDirectAnswer without the except clause
GetDirectAnswerUncaught(resp, stream, on_update) == Complete(resp, stream, on_update)

\* lines 160-182: what complete returns, or the apology with str(e)
GetDirectAnswer(resp, stream, on_update) ==
    LET c == Complete(resp, stream, on_update)
    IN  IF c.state = "returned" THEN c
        ELSE [c EXCEPT !.state = "returned", !.full = Apology(c.error)]

\* the mutant of MockResponse that leaves the note out
MockResponseNoNote(answer, sources) == [response |-> answer, sources |-> sources]

\* lines 264-268: the dict returned without a search credential
MockResponse(answer, sources) == [response |-> answer \o MockNote, sources |-> sources]

\* the mutant of FallbackResponse that returns the sources found so far
FallbackResponseKeepsSources(answer, sources) == [response |-> answer, sources |-> sources]

\* lines 360-366: the dict of the except clause, sources being what the try
\* block has found
FallbackResponse(answer, sources) == [response |-> answer, sources |-> <<>>]

\* the mutant of Notify that invokes the callback twice
NotifyTwice(calls, callback, name, payload) ==
    IF callback = "none" THEN calls
    ELSE Append(Append(calls, <<name, payload>>), <<name, payload>>)

\* lines 65-69, 76-80, 258-262, 318-322: `if callback: try: callback(payload)
\* except Exception`: the invocation is recorded, what it raises is dropped
Notify(calls, callback, name, payload) ==
    IF callback = "none" THEN calls ELSE Append(calls, <<name, payload>>)

\* the mutant of Logged that records the chunks in reverse order
LoggedBackwards(calls, updates) ==
    calls \o [i \in 1..Len(updates) |-> <<"on_update", updates[Len(updates) + 1 - i]>>]

\* the on_update invocations of one request, in the order of the loop
Logged(calls, updates) ==
    calls \o [i \in 1..Len(updates) |-> <<"on_update", updates[i]>>]

\* the mutant of SearchWanted that searches whatever the verdict
SearchAlways(search_needed) == TRUE

\* line 63: search_needed.upper().strip() == 'Y', search_needed being 'Y' or
\* 'N' as _check_search_needed returns it
SearchWanted(search_needed) == search_needed = "Y"

\* line 95: Future.cancel() takes a future that no worker has started
Cancel(future) ==
    IF future.state = "pending" THEN [future EXCEPT !.state = "cancelled"] ELSE future

\* lines 283-285: the results of the answers, in the order of the queries
RECURSIVE AllResults(_, _)
AllResults(answers, q) ==
    IF q > Len(answers) THEN <<>>
    ELSE answers[q].results \o AllResults(answers, q + 1)

\* lines 270-285: all_search_results, or the AttributeError of .get on an
\* answer that is no dict
Gathered(answers) ==
    IF \E q \in 1..Len(answers) : ~answers[q].dict
    THEN [ok |-> FALSE, all |-> <<>>]
    ELSE [ok |-> TRUE, all |-> AllResults(answers, 1)]

NotMade == [made |-> FALSE, resp |-> Refused, out |-> StreamStart]

Made(resp, out) == [made |-> TRUE, resp |-> resp, out |-> out]

NoResult == [answer |-> <<>>, search_used |-> FALSE, sources |-> <<>>]

\* the mutant of ResultDict that returns no sources
ResultDictNoSources(answer, search_used, sources) ==
    [answer |-> answer, search_used |-> search_used, sources |-> <<>>]

ResultDict(answer, search_used, sources) ==
    [answer |-> answer, search_used |-> search_used, sources |-> sources]

NotSubmitted == [state |-> "pending", value |-> <<>>]

(***************************************************************************)
(* MemoryManager                                                 memory.py *)
(***************************************************************************)
\* a word of text.split() starts at i: a non-blank character after a blank
IsWordStart(text, i) == ~IsSpace(text[i]) /\ (i = 1 \/ IsSpace(text[i - 1]))

\* the last character of the word that starts at i
WordEnd(text, i) ==
    CHOOSE e \in i..Len(text) :
        /\ \A j \in i..e : ~IsSpace(text[j])
        /\ (e = Len(text) \/ IsSpace(text[e + 1]))

\* text.split()[:n], read from position from on
RECURSIVE WordsFrom(_, _, _)
WordsFrom(text, from, n) ==
    IF n = 0 \/ ~\E i \in from..Len(text) : IsWordStart(text, i)
    THEN <<>>
    ELSE LET i == CHOOSE k \in from..Len(text) :
                     IsWordStart(text, k) /\ \A j \in from..(k - 1) : ~IsWordStart(text, j)
             e == WordEnd(text, i)
         IN  <<SubSeq(text, i, e)>> \o WordsFrom(text, e + 1, n - 1)

\* len(text.split())
SplitLen(text) == Cardinality({i \in 1..Len(text) : IsWordStart(text, i)})

\* text.split()
Split(text) == WordsFrom(text, 1, SplitLen(text))

\* sep.join(parts)
RECURSIVE Join(_, _)
Join(sep, parts) ==
    IF parts = <<>> THEN <<>>
    ELSE IF Len(parts) = 1 THEN parts[1]
    ELSE parts[1] \o sep \o Join(sep, Tail(parts))

\* MemoryManager._count_words
CountWords(text) == IF text = <<>> THEN 0 ELSE SplitLen(text)

Ellipsis == <<".", ".", ".">>

TopicPrefix == <<"T", "o", "p", "i", "c", ":", " ">>

TopicSep == <<" ", "|", " ">>

\* memory.py line 223: conv["user_input"][:100]
TopicChars == 100

\* memory.py lines 211, 212: conversations[-5:] and conversations[:-5]
KeepHeuristic == 5

\* memory.py lines 258, 284: conversations[:-3] and conversations[-3:]
KeepLLM == 3

\* the state a MemoryManager starts from and clear_memory resets to
EmptyMemory ==
    [conversations |-> <<>>, summary |-> <<>>, last_updated |-> 0, word_count |-> 0]

RECURSIVE SumWords(_)
SumWords(convs) ==
    IF convs = <<>> THEN 0
    ELSE CountWords(Head(convs).user_input) + CountWords(Head(convs).assistant_response)
            + SumWords(Tail(convs))

\* the mutant of UpdateWordCount that leaves the summary out of the count
UpdateWordCountNoSummary(m) ==
    [m EXCEPT !.word_count = SumWords(m.conversations)]

\* MemoryManager._update_word_count
UpdateWordCount(m) ==
    [m EXCEPT !.word_count =
        (IF m.summary # <<>> THEN CountWords(m.summary) ELSE 0) + SumWords(m.conversations)]

\* the mutant of HeuristicSummary that takes the whole user_input
HeuristicSummaryWholeInput(m, older, summary_target) ==
    LET parts == (IF m.summary # <<>> THEN <<m.summary>> ELSE <<>>)
                   \o [i \in 1..Len(older) |-> TopicPrefix \o older[i].user_input]
        new_summary == Join(TopicSep, parts)
    IN  IF SplitLen(new_summary) > summary_target
        THEN Join(<<" ">>, WordsFrom(new_summary, 1, summary_target)) \o Ellipsis
        ELSE new_summary

\* lines 216-230: the summary built from the older conversations
HeuristicSummary(m, older, summary_target) ==
    LET parts == (IF m.summary # <<>> THEN <<m.summary>> ELSE <<>>)
                   \o [i \in 1..Len(older) |-> TopicPrefix \o Take(older[i].user_input, TopicChars)]
        new_summary == Join(TopicSep, parts)
    IN  IF SplitLen(new_summary) > summary_target
        THEN Join(<<" ">>, WordsFrom(new_summary, 1, summary_target)) \o Ellipsis
        ELSE new_summary

\* the mutant of SummarizeHeuristic that keeps the first 5 conversations
SummarizeHeuristicKeepsOldest(m, summary_target) ==
    LET older == DropLastN(m.conversations, KeepHeuristic)
    IN  UpdateWordCount(
            [m EXCEPT !.conversations = Take(m.conversations, KeepHeuristic),
                      !.summary = IF older # <<>> THEN HeuristicSummary(m, older, summary_target)
                                  ELSE m.summary])

\* the mutant of SummarizeHeuristic that forgets to recount
SummarizeHeuristicNoRecount(m, summary_target) ==
    LET older == DropLastN(m.conversations, KeepHeuristic)
    IN  [m EXCEPT !.conversations = LastN(m.conversations, KeepHeuristic),
                  !.summary = IF older # <<>> THEN HeuristicSummary(m, older, summary_target)
                              ELSE m.summary]

\* _summarize_memory, lines 209-236: the fallback, on a non-empty list
SummarizeHeuristic(m, summary_target) ==
    LET important == LastN(m.conversations, KeepHeuristic)
        older == DropLastN(m.conversations, KeepHeuristic)
    IN  UpdateWordCount(
            [m EXCEPT !.conversations = important,
                      !.summary = IF older # <<>> THEN HeuristicSummary(m, older, summary_target)
                                  ELSE m.summary])

\* whether summarize_with_llm gets as far as calling the LLM function:
\* there is a summary or a conversation older than the last 3
LLMIsCalled(m) ==
    /\ m.conversations # <<>>
    /\ (m.summary # <<>> \/ DropLastN(m.conversations, KeepLLM) # <<>>)

\* the mutant of SummarizeWithLLM that cuts the list to the last 3 before the
\* LLM function is called, so that the fallback starts from the cut list
SummarizeWithLLMCutsFirst(m, llm, out, summary_target) ==
    IF ~LLMIsCalled(m) THEN m
    ELSE IF llm = "ok"
         THEN UpdateWordCount([m EXCEPT !.summary = out,
                                        !.conversations = LastN(m.conversations, KeepLLM)])
         ELSE SummarizeHeuristic([m EXCEPT !.conversations = LastN(m.conversations, KeepLLM)],
                                 summary_target)

\* the mutant of SummarizeWithLLM that keeps the last 5 conversations, as the
\* fallback does
SummarizeWithLLMKeepsFive(m, llm, out, summary_target) ==
    IF ~LLMIsCalled(m) THEN m
    ELSE IF llm = "ok"
         THEN UpdateWordCount([m EXCEPT !.summary = out,
                                        !.conversations = LastN(m.conversations, KeepHeuristic)])
         ELSE SummarizeHeuristic(m, summary_target)

\* summarize_with_llm; llm is how the LLM function behaves ("ok", or "raise"),
\* out the summary it returns
SummarizeWithLLM(m, llm, out, summary_target) ==
    IF ~LLMIsCalled(m) THEN m
    ELSE IF llm = "ok"
         THEN UpdateWordCount([m EXCEPT !.summary = out,
                                        !.conversations = LastN(m.conversations, KeepLLM)])
         ELSE SummarizeHeuristic(m, summary_target)      \* line 292: self._summarize_memory()

\* _summarize_memory(llm_function); llm = "none" when no function is configured
SummarizeMemory(m, llm, out, summary_target) ==
    IF m.conversations = <<>> THEN m
    ELSE IF llm # "none" THEN SummarizeWithLLM(m, llm, out, summary_target)
    ELSE SummarizeHeuristic(m, summary_target)

\* add_conversation up to line 61: the append and the recount
Appended(m, conv, now) ==
    UpdateWordCount([m EXCEPT !.conversations = Append(@, conv), !.last_updated = now])

\* add_conversation, lines 63-65
AfterAdd(m, conv, now, max_words, llm, out, summary_target) ==
    LET pre == Appended(m, conv, now)
    IN  IF pre.word_count > max_words
        THEN SummarizeMemory(pre, llm, out, summary_target)
        ELSE pre

\* memory.py line 86: conversations[-10:]
RecentConversations == 10

\* memory.py line 90: assistant_response[:500]
ResponseChars == 500

SummaryLabel ==
    <<"P", "r", "e", "v", "i", "o", "u", "s", " ", "c", "o", "n", "v", "e", "r", "s", "a", "t", "i", "o", "n", " ", "s", "u", "m", "m", "a", "r", "y", ":">>

UserLabel == <<"U", "s", "e", "r", ":", " ">>

AssistantLabel == <<"A", "s", "s", "i", "s", "t", "a", "n", "t", ":", " ">>

\* lines 79-92: context_parts
ContextParts(m, recent) ==
    (IF m.summary # <<>> THEN <<SummaryLabel \o <<"\n">> \o m.summary \o <<"\n">>>> ELSE <<>>)
      \o [k \in 1..(3 * Len(recent)) |->
             LET conv == recent[(k + 2) \div 3]
             IN  CASE k % 3 = 1 -> UserLabel \o conv.user_input
                   [] k % 3 = 2 -> AssistantLabel \o Take(conv.assistant_response, ResponseChars) \o Ellipsis
                   [] OTHER -> <<>>]

\* lines 94-101: the parts joined, and cut to max_context_words words
ContextOf(parts, max_context_words) ==
    LET joined == Join(<<"\n">>, parts)
    IN  IF CountWords(joined) > max_context_words
        THEN Join(<<" ">>, WordsFrom(joined, 1, max_context_words)) \o Ellipsis
        ELSE joined

\* the mutant of GetContext that renders every conversation
GetContextOfAll(m, max_context_words) ==
    ContextOf(ContextParts(m, m.conversations), max_context_words)

\* MemoryManager.get_context, lines 69-101
GetContext(m, max_context_words) ==
    ContextOf(ContextParts(m, LastN(m.conversations, RecentConversations)), max_context_words)

(***************************************************************************)
(* The parts at rest: every specification below runs one part of the       *)
(* program and leaves the others where they start.                         *)
(***************************************************************************)
JudgeIdle == jResp = Raised /\ jOut = "none"

ExtractIdle == xResp = Raised /\ xOut = Pending

StreamIdle ==
    /\ sStatusOk = TRUE
    /\ sEvents = <<>>
    /\ sUpd = "none"
    /\ sPos = 0
    /\ sSt = StreamStart

MemoryIdle ==
    /\ maxWords = 0
    /\ summaryTarget = 0
    /\ llmGiven = FALSE
    /\ memory = EmptyMemory
    /\ disk = [kind |-> "missing", j |-> JNull]
    /\ clock = 0
    /\ memOp = "off"
    /\ memPre = [ran |-> FALSE, m |-> EmptyMemory]
    /\ llmDid = "notcalled"
    /\ llmOut = <<>>
    /\ saveDid = "none"

SharedIdle == shared = <<>>

CiteIdle == cite = <<>>

ContextIdle == context = [op |-> "off", max |-> 0, out |-> <<>>]

RetryIdle == retry = <<>>

HookIdle == hook = <<>>

RetrievalIdle ==
    /\ rResp = <<>>
    /\ rDone = {}
    /\ rAll = <<>>
    /\ rTaken = 0
    /\ rSources = <<>>
    /\ rPc = "off"

OrchIdle ==
    /\ oStream = FALSE
    /\ oKey = FALSE
    /\ oCb = <<>>
    /\ oPc = "off"
    /\ oVerdict = "none"
    /\ oQueries = NotSubmitted
    /\ oCalls = <<>>
    /\ oSources = <<>>
    /\ oG = NotMade
    /\ oD = NotMade
    /\ oResult = NoResult

(***************************************************************************)
(* SpecJudge: _check_search_needed on every short response                 *)
(***************************************************************************)
MaxJudgeLen == 4

JudgeChars == {" ", "y", "Y", "n", "N", "a"}

JudgeInit ==
    /\ jResp \in {Raised} \cup {Returned(t) : t \in SeqsUpTo(JudgeChars, MaxJudgeLen)}
    /\ jOut = "none"
    /\ ExtractIdle /\ StreamIdle /\ MemoryIdle /\ RetrievalIdle /\ OrchIdle /\ SharedIdle /\ CiteIdle /\ ContextIdle /\ RetryIdle /\ HookIdle

Judge ==
    /\ jOut = "none"
    /\ jOut' = CheckSearchNeeded(jResp)
    /\ UNCHANGED <<jResp, extractVars, streamVars, memVars, retrVars, orchVars, sideVars>>

SpecJudge == JudgeInit /\ [][Judge]_vars

\* the first 3 characters the verdict is read from
JudgeHead == Take(Upper(Strip(jResp.text)), 3)

\* the least index at which c occurs in s, 0 if it does not
FirstOf(s, c) == IndexFrom(s, c, 1)

LeadingBlanks(t) ==
    CHOOSE k \in 0..Len(t) :
        /\ \A i \in 1..k : t[i] = " "
        /\ (k < Len(t) => t[k + 1] # " ")

MaxExtractLen == 4

MaxItems == 4

ExtractChars == {"[", "]", "\"", ",", "1", "q"}

\* a JSON array of n one-letter strings
RECURSIVE ArrayItems(_)
ArrayItems(n) ==
    IF n = 0 THEN <<>>
    ELSE IF n = 1 THEN <<"\"", "q", "\"">>
    ELSE <<"\"", "q", "\"", ",", " ">> \o ArrayItems(n - 1)

ArrayText(n) == <<"[">> \o ArrayItems(n) \o <<"]">>

ExtractResponses ==
    SeqsUpTo(ExtractChars, MaxExtractLen)
      \cup {pre \o ArrayText(n) \o post :
                n \in 0..MaxItems, pre \in {<<>>, <<"q", " ">>}, post \in {<<>>, <<" ", "q">>, <<"]">>}}

ExtractInit ==
    /\ xResp \in {Raised} \cup {Returned(t) : t \in ExtractResponses}
    /\ xOut = Pending
    /\ JudgeIdle /\ StreamIdle /\ MemoryIdle /\ RetrievalIdle /\ OrchIdle /\ SharedIdle /\ CiteIdle /\ ContextIdle /\ RetryIdle /\ HookIdle

Extract ==
    /\ ~xOut.done
    /\ xOut' = Result(ExtractSearchQueriesFast(xResp, UserQuery))
    /\ UNCHANGED <<xResp, judgeVars, streamVars, memVars, retrVars, orchVars, sideVars>>

SpecExtract == ExtractInit /\ [][Extract]_vars

\* C4 as stated: the list _extract_search_queries_fast returns has between 1
\* and 3 entries, whatever the completion call answers, and is [user_query]
\* when the completion call raises or its answer holds no bracket pair.
C4_OneToThree ==
    xOut.done =>
        /\ Len(xOut.value) >= 1
        /\ Len(xOut.value) <= 3
        /\ (~xResp.ok \/ ~BracketSearch(xResp.text).found) => xOut.value = <<UserQuery>>

(***************************************************************************)
(* SpecRetrieval: the search fan-out of _get_search_grounded_response with *)
(* a search credential, up to the source list                              *)
(***************************************************************************)
\* `len` results of query q, with the urls first, first + 1, ...
Page(q, first, len) == [i \in 1..len |-> SearchResult(first + i - 1, <<q, i>>)]

\* the same, the result at position at having url instead
PageWith(q, first, len, at, url) ==
    [i \in 1..len |-> SearchResult(IF i = at THEN url ELSE first + i - 1, <<q, i>>)]

FirstUrls == {1, 5, 17}

\* what the search service may answer to query q
SearchAnswers(q) ==
    {NoResults, NotADict}
      \cup {Found(Page(q, f, 2)) : f \in FirstUrls}
      \cup {Found(Page(q, f, MaxResults)) : f \in FirstUrls}
      \cup {Found(PageWith(q, f, MaxResults, 2, 0)) : f \in FirstUrls}      \* a result without url
      \cup {Found(PageWith(q, f, 3, 3, f)) : f \in FirstUrls}               \* a url twice

RetrievalInit ==
    /\ \E n \in 1..MaxQueries :
          rResp \in {r \in [1..n -> UNION {SearchAnswers(q) : q \in 1..n}] :
                        \A q \in 1..n : r[q] \in SearchAnswers(q)}
    /\ rDone = {}
    /\ rAll = <<>>
    /\ rTaken = 0
    /\ rSources = <<>>
    /\ rPc = "searching"
    /\ JudgeIdle /\ ExtractIdle /\ StreamIdle /\ MemoryIdle /\ OrchIdle /\ SharedIdle /\ CiteIdle /\ ContextIdle /\ RetryIdle /\ HookIdle

\* a worker of search_executor finishes _tavily_search for query q
SearchDone(q) ==
    /\ q \in DOMAIN rResp /\ q \notin rDone
    /\ rDone' = rDone \cup {q}
    /\ UNCHANGED <<rResp, rAll, rTaken, rSources, rPc>>
    /\ UNCHANGED <<judgeVars, extractVars, streamVars, memVars, orchVars, sideVars>>

\* the mutant of Extended that puts the results in front
ExtendedInFront(all, search_response) == search_response.results \o all

\* line 285: all_search_results.extend(search_response.get('results', []))
Extended(all, search_response) == all \o search_response.results

\* lines 283-285: future.result() of the next future, in submission order,
\* and search_response.get('results', []), an AttributeError on a non-dict
TakeResult ==
    /\ rPc = "searching" /\ rTaken < Len(rResp) /\ (rTaken + 1) \in rDone
    /\ rTaken' = rTaken + 1
    /\ IF rResp[rTaken + 1].dict
       THEN rAll' = Extended(rAll, rResp[rTaken + 1]) /\ rPc' = rPc
       ELSE rAll' = rAll /\ rPc' = "failing"
    /\ UNCHANGED <<rResp, rDone, rSources>>
    /\ UNCHANGED <<judgeVars, extractVars, streamVars, memVars, orchVars, sideVars>>

\* the with block is left on the exception once every future has finished
RetrievalRaises ==
    /\ rPc = "failing" /\ rDone = DOMAIN rResp
    /\ rPc' = "raised"
    /\ UNCHANGED <<rResp, rDone, rAll, rTaken, rSources>>
    /\ UNCHANGED <<judgeVars, extractVars, streamVars, memVars, orchVars, sideVars>>

\* lines 287-315: the duplicates are removed and the sources built
FormatSources ==
    /\ rPc = "searching" /\ rTaken = Len(rResp)
    /\ rSources' = SourcesOf(UniqueResults(rAll))
    /\ rPc' = "formatted"
    /\ UNCHANGED <<rResp, rDone, rAll, rTaken>>
    /\ UNCHANGED <<judgeVars, extractVars, streamVars, memVars, orchVars, sideVars>>

RetrievalNext ==
    \/ \E q \in 1..MaxQueries : SearchDone(q)
    \/ TakeResult
    \/ RetrievalRaises
    \/ FormatSources

SpecRetrieval == RetrievalInit /\ [][RetrievalNext]_vars

(***************************************************************************)
(* C5                                                                      *)
(***************************************************************************)
\* the positions of all_search_results at which a url occurs first
FirstAt(all) == {p \in 1..Len(all) : \A h \in 1..(p - 1) : all[h].url # all[p].url}

\* the sources that have the url
EntriesOf(url) == {k \in 1..Len(rSources) : rSources[k].url = url}

\* C5 (as stated): when the same url occurs at two positions of the
\* concatenated result list, the source list has exactly one entry for that
\* url, it is the entry of the first position of that url, and the remaining
\* entries are in the order of their first occurrence.
C5_EveryUrlOnce ==
    rPc = "formatted" =>
        /\ \A i \in FirstAt(rAll) :
              (\E j \in (i + 1)..Len(rAll) : rAll[j].url = rAll[i].url) =>
                  /\ Cardinality(EntriesOf(rAll[i].url)) = 1
                  /\ \A k \in EntriesOf(rAll[i].url) : rSources[k].title = rAll[i].title
        /\ \A k, l \in 1..Len(rSources) :
              k < l => \E i, j \in FirstAt(rAll) :
                          /\ i < j
                          /\ rAll[i].url = rSources[k].url
                          /\ rAll[j].url = rSources[l].url

\* the number of different non-empty urls that occur up to position p
RankAt(all, p) == Cardinality({all[h].url : h \in 1..p} \ {0})

\* C5 (amended): the source list has at most one entry for a url, none for
\* the empty url; the result at the first position of the r-th different
\* non-empty url is source r when r is at most 15 and is not a source
\* otherwise, so the entries are in the order of first occurrence.
C5_FirstWins ==
    rPc = "formatted" =>
        /\ Len(rSources) = Min(MaxSources, RankAt(rAll, Len(rAll)))
        /\ \A k \in 1..Len(rSources) : rSources[k].url # 0 /\ EntriesOf(rSources[k].url) = {k}
        /\ \A p \in FirstAt(rAll) :
              (rAll[p].url # 0 /\ RankAt(rAll, p) <= MaxSources) =>
                  rSources[RankAt(rAll, p)] = Source(RankAt(rAll, p), rAll[p])

\* a url came back from two searches, and more different urls than fit
C5_Witness ==
    /\ rPc = "formatted"
    /\ \E i, j \in 1..Len(rAll) :
          /\ i < j /\ rAll[i].url = rAll[j].url /\ rAll[i].url # 0
          /\ rAll[i].title[1] # rAll[j].title[1]
          /\ EntriesOf(rAll[i].url) # {}
    /\ RankAt(rAll, Len(rAll)) > MaxSources

(***************************************************************************)
(* SpecStream: _stream_request on every stream of up to MaxEvents events   *)
(***************************************************************************)
MaxEvents == 3

\* {"choices": [{"delta": {"content": c}}]}
ChunkWith(c) ==
    JObj(<< <<"choices", JList(<< JObj(<< <<"delta", JObj(<< <<"content", c>> >>)>> >>) >>)>> >>)

SampleChunks ==
    {ChunkWith(JStr(<<"a">>)), ChunkWith(JStr(<<"b">>)), ChunkWith(JStr(<<>>)),
     ChunkWith(JNull), ChunkWith(JNum(5)),
     JEmptyObj,                                                 \* {}
     JObj(<< <<"choices", JList(<<>>)>> >>),                    \* {"choices": []}
     JObj(<< <<"choices", JList(<<JEmptyObj>>)>> >>),           \* {"choices": [{}]}
     JObj(<< <<"choices", JList(<< JObj(<< <<"delta", JEmptyObj>> >>) >>)>> >>),
     JObj(<< <<"choices", JList(<< JObj(<< <<"delta", JNull>> >>) >>)>> >>),
     JObj(<< <<"choices", JList(<<JNum(5)>>)>> >>),             \* {"choices": [5]}
     JObj(<< <<"choices", JNull>> >>),                          \* {"choices": null}
     JNum(5), JList(<<>>)}

StreamEvents == {EvDone, EvBad, EvIOError} \cup {EvJson(c) : c \in SampleChunks}

StreamInit ==
    /\ sStatusOk \in BOOLEAN
    /\ sEvents \in SeqsUpTo(StreamEvents, MaxEvents)
    /\ sUpd \in {"none", "ok", "raise"}
    /\ sPos = 0
    /\ sSt = StreamStart
    /\ JudgeIdle /\ ExtractIdle /\ MemoryIdle /\ RetrievalIdle /\ OrchIdle /\ SharedIdle /\ CiteIdle /\ ContextIdle /\ RetryIdle /\ HookIdle

\* lines 565-566: a status other than 200 raises before any event is read
StreamRefused ==
    /\ sSt.state = "open" /\ sPos = 0 /\ ~sStatusOk
    /\ sSt' = Fail(sSt, StatusError)
    /\ UNCHANGED <<sStatusOk, sEvents, sUpd, sPos, judgeVars, extractVars, memVars, retrVars, orchVars, sideVars>>

\* one round of the loop over client.events()
StreamEvent ==
    /\ sSt.state = "open" /\ sStatusOk /\ sPos < Len(sEvents)
    /\ sSt' = StreamStep(sSt, sEvents[sPos + 1], sUpd)
    /\ sPos' = sPos + 1
    /\ UNCHANGED <<sStatusOk, sEvents, sUpd, judgeVars, extractVars, memVars, retrVars, orchVars, sideVars>>

\* the server closes the stream: the loop ends and full_content is returned
StreamClosed ==
    /\ sSt.state = "open" /\ sStatusOk /\ sPos = Len(sEvents)
    /\ sSt' = StreamEnd(sSt)
    /\ UNCHANGED <<sStatusOk, sEvents, sUpd, sPos, judgeVars, extractVars, memVars, retrVars, orchVars, sideVars>>

StreamNext == StreamRefused \/ StreamEvent \/ StreamClosed

SpecStream == StreamInit /\ [][StreamNext]_vars

\* the content a well-formed chunk carries: a text, under choices[0].delta
IsObj(x) == JType(x) = "obj"

CarriesDelta(ev) ==
    /\ EvKind(ev) = "json"
    /\ IsObj(EvData(ev)) /\ HasKey(EvData(ev), "choices")
    /\ LET choices == GetKey(EvData(ev), "choices")
       IN  /\ JType(choices) = "list" /\ JVal(choices) # <<>>
           /\ IsObj(JVal(choices)[1]) /\ HasKey(JVal(choices)[1], "delta")
           /\ LET delta == GetKey(JVal(choices)[1], "delta")
              IN  /\ IsObj(delta) /\ HasKey(delta, "content")
                  /\ JType(GetKey(delta, "content")) = "str"
                  /\ JVal(GetKey(delta, "content")) # <<>>

DeltaOf(ev) == JVal(GetKey(GetKey(JVal(GetKey(EvData(ev), "choices"))[1], "delta"), "content"))

\* the events that come before the [DONE] sentinel
BeforeDone(events) ==
    LET d == IndexFrom(events, EvDone, 1)
    IN  IF d = 0 THEN events ELSE SubSeq(events, 1, d - 1)

\* the non-empty deltas of the well-formed chunks, in arrival order
RECURSIVE WellFormedDeltas(_)
WellFormedDeltas(events) ==
    IF events = <<>> THEN <<>>
    ELSE (IF CarriesDelta(Head(events)) THEN <<DeltaOf(Head(events))>> ELSE <<>>)
            \o WellFormedDeltas(Tail(events))

RECURSIVE Concat(_)
Concat(texts) == IF texts = <<>> THEN <<>> ELSE Head(texts) \o Concat(Tail(texts))

\* C8 as stated: on a stream the server sends without a connection error, with
\* an on_update that does not raise, _stream_request returns; the text equals
\* the concatenation of the non-empty deltas of the well-formed chunks before
\* [DONE], and on_update has been called once per such delta, in order.
C8_MalformedSkipped ==
    LET deltas == WellFormedDeltas(BeforeDone(sEvents))
    IN  (/\ sStatusOk /\ sUpd # "raise"
         /\ \A i \in 1..Len(BeforeDone(sEvents)) : EvKind(sEvents[i]) # "ioerror"
         /\ sSt.state # "open")
        => /\ sSt.state = "returned"
           /\ sSt.full = Concat(deltas)
           /\ sUpd = "ok" => sSt.updates = deltas

(***************************************************************************)
(* SpecMemory: one MemoryManager, constructed on a file that is missing or *)
(* holds the document of an earlier run, under add_conversation and        *)
(* clear_memory                                                            *)
(***************************************************************************)
\* the number of public operations a run makes
MaxOps == 2

\* the number of conversations the file holds at most when the run starts
MaxStored == 6

UserInputs == {<<"h", "i">>, <<"a", " ", "b", " ", "c", " ", "d">>}

Responses == {<<>>, <<"o", "k", " ", "o", "k", " ", "o", "k">>}

\* what the LLM function may return
LLMOutputs == {<<"s">>, <<"s", " ", "s", " ", "s", " ", "s", " ", "s", " ", "s">>}

MaxWordsChoices == {2, 60}

SummaryTargets == {0, 3}

Conversation(now, user_input, assistant_response) ==
    [timestamp |-> now, user_input |-> user_input,
     assistant_response |-> assistant_response, sources |-> <<>>, metadata |-> <<>>]

\* the mutant of DumpMemory that writes the conversations only
DumpMemoryNoSummary(m) ==
    JObj(<< <<"conversations",
              JList([i \in 1..Len(m.conversations) |->
                        LET c == m.conversations[i]
                        IN  JObj(<< <<"timestamp", JStr(<<c.timestamp>>)>>,
                                    <<"user_input", JStr(c.user_input)>>,
                                    <<"assistant_response", JStr(c.assistant_response)>>,
                                    <<"sources", JList(c.sources)>>,
                                    <<"metadata", JObj(c.metadata)>> >>)])>>,
            <<"summary", JStr(<<>>)>>,
            <<"last_updated", IF m.last_updated = 0 THEN JNull ELSE JStr(<<m.last_updated>>)>>,
            <<"word_count", JNum(m.word_count)>> >>)

\* json.dump(self.memory, f) of line 165: the document of a memory; a
\* timestamp is the one-element text that stands for its ISO string
DumpMemory(m) ==
    JObj(<< <<"conversations",
              JList([i \in 1..Len(m.conversations) |->
                        LET c == m.conversations[i]
                        IN  JObj(<< <<"timestamp", JStr(<<c.timestamp>>)>>,
                                    <<"user_input", JStr(c.user_input)>>,
                                    <<"assistant_response", JStr(c.assistant_response)>>,
                                    <<"sources", JList(c.sources)>>,
                                    <<"metadata", JObj(c.metadata)>> >>)])>>,
            <<"summary", JStr(m.summary)>>,
            <<"last_updated", IF m.last_updated = 0 THEN JNull ELSE JStr(<<m.last_updated>>)>>,
            <<"word_count", JNum(m.word_count)>> >>)

\* a file is missing, holds bytes that are no UTF-8 text ("undecodable"), a
\* text that is no JSON ("garbage"), or a JSON value j
Stored(m) == [kind |-> "json", j |-> DumpMemory(m)]

NoFile == [kind |-> "missing", j |-> JNull]

\* the document an earlier run left: n short exchanges, every other one with
\* an empty answer, and a summary
EarlierMemory(n, summary) ==
    UpdateWordCount(
        [conversations |-> [i \in 1..n |->
                               Conversation(i, <<"h", "i">>,
                                            IF i % 2 = 0 THEN <<"o", "k">> ELSE <<>>)],
         summary |-> summary,
         last_updated |-> n,
         word_count |-> 0])

EarlierFiles ==
    {NoFile} \cup {Stored(EarlierMemory(n, sm)) :
                        n \in {0, KeepLLM, KeepHeuristic, MaxStored}, sm \in {<<>>, <<"s", " ", "s">>}}

\* what else the file may hold: no text, no JSON, JSON that is no object, an
\* object without the four keys, the four keys with conversations that are
\* no list of conversation objects
BrokenFiles ==
    LET DocumentWith(convs) ==
            JObj(<< <<"conversations", convs>>, <<"summary", JStr(<<>>)>>,
                    <<"last_updated", JNull>>, <<"word_count", JNum(0)>> >>)
    IN  {[kind |-> "undecodable", j |-> JNull], [kind |-> "garbage", j |-> JNull]}
          \cup {[kind |-> "json", j |-> j] :
                   j \in {JNum(5), JNull, JList(<<>>), JStr(<<"s">>), JEmptyObj,
                          JObj(<< <<"conversations", JList(<<>>)>> >>),
                          DocumentWith(JList(<<JNum(5)>>)),
                          DocumentWith(JList(<<JEmptyObj>>)),
                          DocumentWith(JNull)}}

\* json.load of a document with the four keys, lines 151-154: the memory it
\* is adopted as, and whether _update_word_count of line 155 can count it:
\* the summary is falsy or a text, the conversations can be iterated and each
\* has a user_input and an assistant_response that is falsy or a text
AdoptedMemory(j) ==
    LET convs == GetKey(j, "conversations")
        Text(x) == ~Truthy(x) \/ JType(x) = "str"
        Field(c, key) == JType(c) = "obj" /\ HasKey(c, key) /\ Text(GetKey(c, key))
        countable ==
            /\ Text(GetKey(j, "summary"))
            /\ CASE JType(convs) = "list" ->
                       \A i \in 1..Len(JVal(convs)) :
                           /\ Field(JVal(convs)[i], "user_input")
                           /\ Field(JVal(convs)[i], "assistant_response")
                 [] JType(convs) \in {"obj", "str"} -> JVal(convs) = <<>>
                 [] OTHER -> FALSE
        Entry(c) ==
            [timestamp          |-> JVal(GetKey(c, "timestamp"))[1],
             user_input         |-> JVal(GetKey(c, "user_input")),
             assistant_response |-> JVal(GetKey(c, "assistant_response")),
             sources            |-> JVal(GetKey(c, "sources")),
             metadata           |-> JVal(GetKey(c, "metadata"))]
    IN  [countable |-> countable,
         m |-> IF countable
               THEN [conversations |-> [i \in 1..Len(JVal(convs)) |-> Entry(JVal(convs)[i])],
                     summary       |-> JVal(GetKey(j, "summary")),
                     last_updated  |-> IF JType(GetKey(j, "last_updated")) = "null" THEN 0
                                       ELSE JVal(GetKey(j, "last_updated"))[1],
                     word_count    |-> JVal(GetKey(j, "word_count"))]
               ELSE EmptyMemory]

\* the mutant of LoadMemory that reads nothing
LoadMemoryKeeps(m, file) == [raised |-> FALSE, m |-> m]

\* load_memory on a manager whose memory is m: the memory afterwards, and
\* whether an exception leaves the method. Caught are JSONDecodeError and
\* FileNotFoundError: not the UnicodeDecodeError of the read, the TypeError of
\* `key in loaded_memory` on a number or null, nor what _update_word_count
\* raises on the adopted document.
LoadMemory(m, file) ==
    LET keys == {<<"conversations", <<"c", "o", "n", "v", "e", "r", "s", "a", "t", "i", "o", "n", "s">> >>,
                 <<"summary", <<"s", "u", "m", "m", "a", "r", "y">> >>,
                 <<"last_updated", <<"l", "a", "s", "t", "_", "u", "p", "d", "a", "t", "e", "d">> >>,
                 <<"word_count", <<"w", "o", "r", "d", "_", "c", "o", "u", "n", "t">> >>}
    IN  CASE file.kind \in {"missing", "garbage"} -> [raised |-> FALSE, m |-> m]
          [] file.kind = "undecodable"            -> [raised |-> TRUE, m |-> m]
          [] OTHER ->
               IF InRaises(file.j) THEN [raised |-> TRUE, m |-> m]
               ELSE IF \E k \in keys : ~InHolds(k[1], k[2], file.j) THEN [raised |-> FALSE, m |-> m]
               ELSE IF JType(file.j) # "obj" \/ ~AdoptedMemory(file.j).countable
                    THEN [raised |-> TRUE, m |-> m]
               ELSE [raised |-> FALSE, m |-> UpdateWordCount(AdoptedMemory(file.j).m)]

\* the mutant of Saved that lets the error of a failed write pass
SavedUncaught(m, old, outcome) ==
    CASE outcome = "written" -> [raised |-> FALSE, file |-> Stored(m)]
      [] outcome = "refused" -> [raised |-> TRUE, file |-> old]
      [] OTHER               -> [raised |-> TRUE, file |-> [kind |-> "garbage", j |-> JNull]]

\* save_memory: the document is written, or the write fails and the error is
\* printed: open() failed and the file is as it was, or the dump failed and
\* the file holds a truncated document. No exception leaves the method.
Saved(m, old, outcome) ==
    CASE outcome = "written" -> [raised |-> FALSE, file |-> Stored(m)]
      [] outcome = "refused" -> [raised |-> FALSE, file |-> old]
      [] OTHER               -> [raised |-> FALSE, file |-> [kind |-> "garbage", j |-> JNull]]

SaveOutcomes == {"written", "refused", "truncated"}

\* what the LLM function may do when it is called
LLMBehaviours == {[does |-> "ok", out |-> o] : o \in LLMOutputs} \cup {[does |-> "raise", out |-> <<>>]}

LLMUnused == [does |-> "notcalled", out |-> <<>>]

\* the mutant of Cleared that keeps the summary
ClearedKeepsSummary(m) == [EmptyMemory EXCEPT !.summary = m.summary]

\* clear_memory, lines 105-110: what the memory m is reset to
Cleared(m) ==
    [conversations |-> <<>>, summary |-> <<>>, last_updated |-> 0, word_count |-> 0]

\* __init__: the memory is loaded from memory_file; when load_memory raises,
\* the constructor raises and there is no manager
MemoryInit ==
    /\ maxWords \in MaxWordsChoices
    /\ summaryTarget \in SummaryTargets
    /\ llmGiven \in BOOLEAN
    \* under the limit that no run reaches, add_conversation never summarizes:
    \* one configuration stands for all
    /\ maxWords = 60 => (~llmGiven /\ summaryTarget = 3)
    /\ disk \in EarlierFiles
    /\ memory = LoadMemory(EmptyMemory, disk).m
    /\ clock = MaxStored
    /\ memOp = IF LoadMemory(EmptyMemory, disk).raised THEN "init raised" ELSE "init"
    /\ memPre = [ran |-> FALSE, m |-> EmptyMemory]
    /\ llmDid = "notcalled"
    /\ llmOut = <<>>
    /\ saveDid = "none"
    /\ JudgeIdle /\ ExtractIdle /\ StreamIdle /\ RetrievalIdle /\ OrchIdle /\ SharedIdle /\ CiteIdle /\ ContextIdle /\ RetryIdle /\ HookIdle

\* add_conversation(user_input, assistant_response), with what the LLM
\* function does if this call gets as far as calling it, and how the save
\* ends; memPre keeps the memory as it is before the summarization
AddConversation(user_input, assistant_response) ==
    LET now == clock + 1
        conv == Conversation(now, user_input, assistant_response)
        pre == Appended(memory, conv, now)
        over == pre.word_count > maxWords
        called == over /\ llmGiven /\ LLMIsCalled(pre)
    IN  /\ memOp \in {"init", "add", "summarize", "clear"}
        /\ clock < MaxStored + MaxOps
        /\ \E llm \in IF called THEN LLMBehaviours ELSE {LLMUnused} :
              LET m == AfterAdd(memory, conv, now, maxWords,
                                IF llmGiven THEN llm.does ELSE "none", llm.out, summaryTarget)
              IN  /\ memory' = m
                  /\ llmDid' = llm.does
                  /\ llmOut' = llm.out
                  /\ \E outcome \in SaveOutcomes :
                        /\ disk' = Saved(m, disk, outcome).file
                        /\ saveDid' = outcome
                        /\ memOp' = IF Saved(m, disk, outcome).raised THEN "raised" ELSE "add"
        /\ clock' = now
        /\ memPre' = [ran |-> over, m |-> pre]
        /\ UNCHANGED <<maxWords, summaryTarget, llmGiven, judgeVars, extractVars, streamVars, retrVars, orchVars, sideVars>>

\* summarize_with_llm(llm_function), called by the user of the manager
SummarizeNow ==
    /\ memOp \in {"init", "add", "summarize", "clear"}
    /\ clock < MaxStored + MaxOps
    /\ clock' = clock + 1
    /\ \E llm \in IF LLMIsCalled(memory) THEN LLMBehaviours ELSE {LLMUnused} :
          /\ memory' = SummarizeWithLLM(memory, llm.does, llm.out, summaryTarget)
          /\ llmDid' = llm.does
          /\ llmOut' = llm.out
    /\ memOp' = "summarize"
    /\ memPre' = [ran |-> FALSE, m |-> memory]
    /\ UNCHANGED <<disk, saveDid>>
    /\ UNCHANGED <<maxWords, summaryTarget, llmGiven, judgeVars, extractVars, streamVars, retrVars, orchVars, sideVars>>

\* clear_memory
ClearMemory(outcome) ==
    /\ memOp \in {"init", "add", "summarize", "clear"}
    /\ clock < MaxStored + MaxOps
    /\ clock' = clock + 1
    /\ memory' = Cleared(memory)
    /\ disk' = Saved(Cleared(memory), disk, outcome).file
    /\ saveDid' = outcome
    /\ memOp' = IF Saved(Cleared(memory), disk, outcome).raised THEN "raised" ELSE "clear"
    /\ memPre' = [ran |-> FALSE, m |-> memory]
    /\ llmDid' = "notcalled"
    /\ llmOut' = <<>>
    /\ UNCHANGED <<maxWords, summaryTarget, llmGiven, judgeVars, extractVars, streamVars, retrVars, orchVars, sideVars>>

MemoryNext ==
    \/ \E u \in UserInputs, a \in Responses : AddConversation(u, a)
    \/ SummarizeNow
    \/ \E outcome \in SaveOutcomes : ClearMemory(outcome)

SpecMemory == MemoryInit /\ [][MemoryNext]_vars

\* the number of whitespace-delimited tokens of a text: the places where a
\* non-blank character ends the text or stands before a blank
Tokens(text) ==
    Cardinality({i \in 1..Len(text) :
                    text[i] # " " /\ (i = Len(text) \/ text[i + 1] = " ")})

RECURSIVE TokensOf(_)
TokensOf(convs) ==
    IF convs = <<>> THEN 0
    ELSE Tokens(Head(convs).user_input) + Tokens(Head(convs).assistant_response)
            + TokensOf(Tail(convs))

\* C9: after every add_conversation and clear_memory, word_count is the
\* number of tokens of the summary plus those of the user_input and the
\* assistant_response of every conversation in the list.
C9_WordCount ==
    memOp \in {"add", "clear"} =>
        memory.word_count = Tokens(memory.summary) + TokensOf(memory.conversations)

\* an add_conversation has summarized after the LLM function raised, and left
\* a summary and conversations
C9_Witness ==
    /\ memOp = "add" /\ memPre.ran /\ llmDid = "raise"
    /\ memory.summary # <<>> /\ memory.conversations # <<>>

\* C10 as stated: when add_conversation summarizes, the word_count it leaves
\* is strictly less than the word_count computed just before summarization.
C10_StrictlyLess ==
    (memOp = "add" /\ memPre.ran) => memory.word_count < memPre.m.word_count

\* the conversations of the memory before summarization that are not kept
Discarded ==
    SubSeq(memPre.m.conversations, 1,
           Len(memPre.m.conversations) - Len(memory.conversations))

\* C10 as amended: when add_conversation summarizes, the conversations kept
\* are the last ones of the list, and the word_count it leaves is the
\* pre-summarization value less the tokens of the discarded conversations and
\* of the old summary, plus the tokens of the new summary. It is strictly less
\* exactly when the new summary is shorter than what it replaces, and it is
\* unchanged when the LLM function does not return a summary and the list has
\* at most 5 conversations.
C10_Accounting ==
    (memOp = "add" /\ memPre.ran) =>
        LET pre == memPre.m
        IN  /\ memory.conversations = LastN(pre.conversations, Len(memory.conversations))
            /\ memory.word_count =
                  pre.word_count - TokensOf(Discarded) - Tokens(pre.summary)
                     + Tokens(memory.summary)
            /\ memory.word_count < pre.word_count <=>
                  Tokens(memory.summary) < Tokens(pre.summary) + TokensOf(Discarded)
            /\ (llmDid # "ok" /\ Len(pre.conversations) <= 5) =>
                  /\ memory.word_count = pre.word_count
                  /\ memory.summary = pre.summary
                  /\ memory.conversations = pre.conversations

\* an add_conversation has summarized on the heuristic path, discarded a
\* conversation, and left a word_count above the pre-summarization value
C10_Witness ==
    /\ memOp = "add" /\ memPre.ran /\ llmDid # "ok"
    /\ Discarded # <<>>
    /\ memory.word_count > memPre.m.word_count

\* what a new MemoryManager on the file starts with
Reloaded == LoadMemory(EmptyMemory, disk)

C13_StoredIsMemory ==
    (memOp \in {"add", "summarize", "clear"} /\ saveDid \in {"none", "written"}) =>
        /\ ~Reloaded.raised
        /\ Reloaded.m = memory

\* the step of an add_conversation or a clear_memory whose save fails: the
\* call returns, the memory ends with the new conversation or is empty, and
\* an add_conversation that follows a failed save appends to the memory
\* as it is, not to what the file holds
SaveFailureKept ==
    /\ (saveDid' \in {"refused", "truncated"} /\ clock' = clock + 1 /\ memOp' # "summarize") =>
          /\ memOp' \in {"add", "clear"}
          /\ memOp' = "add" =>
                /\ memPre'.m.conversations[Len(memPre'.m.conversations)].timestamp = clock'
                /\ memory'.conversations # <<>>
                /\ memory'.conversations[Len(memory'.conversations)].timestamp = clock'
          /\ memOp' = "clear" => memory' = EmptyMemory
    /\ (saveDid \in {"refused", "truncated"} /\ memOp' = "add" /\ clock' = clock + 1) =>
          /\ DropLastN(memPre'.m.conversations, 1) = memory.conversations
          /\ memPre'.m.summary = memory.summary

\* C14: a write failure during add_conversation or clear_memory is never
\* raised to the caller; the mutation of the memory is kept, and the
\* operations that follow continue from the memory.
C14_SaveFailures == [][SaveFailureKept]_vars

\* two add_conversation calls on a manager that started without a file, the
\* save of both refused: the file is still missing and the memory holds both
C14_Witness ==
    /\ memOp = "add" /\ saveDid = "refused" /\ disk = NoFile
    /\ Len(memory.conversations) = 2

\* C15: when the LLM function raises during a summarization that
\* add_conversation triggers, the memory the call leaves is the one the
\* heuristic summarization gives from the memory as it is before the
\* summarization: the last 5 conversations, the heuristic summary of the
\* older ones, and the recount.
C15_LLMFailure ==
    (memOp = "add" /\ memPre.ran /\ llmDid = "raise") =>
        /\ memory = SummarizeMemory(memPre.m, "none", <<>>, summaryTarget)
        /\ memory.conversations = LastN(memPre.m.conversations, KeepHeuristic)

\* the LLM function has raised with more than 5 conversations in the list
C15_Witness ==
    /\ memOp = "add" /\ memPre.ran /\ llmDid = "raise"
    /\ Len(memPre.m.conversations) > KeepHeuristic
    /\ memory.summary # memPre.m.summary

\* C16: clear_memory leaves no conversations, an empty summary and a
\* word_count of 0; when its save wrote the file, a new MemoryManager on that
\* file starts empty; and a second clear_memory changes neither the memory
\* nor the file.
C16_Clear ==
    memOp = "clear" =>
        /\ memory.conversations = <<>> /\ memory.summary = <<>> /\ memory.word_count = 0
        /\ Cleared(memory) = memory
        /\ saveDid = "written" =>
              /\ Reloaded = [raised |-> FALSE, m |-> EmptyMemory]
              /\ Saved(Cleared(memory), disk, "written").file = disk

\* a clear_memory has written the file, of a memory that had a summary and
\* conversations
C16_Witness ==
    /\ memOp = "clear" /\ saveDid = "written"
    /\ memPre.m.summary # <<>> /\ memPre.m.conversations # <<>>

(***************************************************************************)
(* SpecShared: two MemoryManager instances constructed on one file, which  *)
(* holds anything, with the default limits and a working storage, under    *)
(* load_memory and add_conversation                                        *)
(***************************************************************************)
\* the number of operations the two instances make together
MaxSharedOps == 3

\* memory.py line 19: max_words: int = 5000
DefaultMaxWords == 5000

\* memory.py line 19: summary_target: int = 1000
DefaultSummaryTarget == 1000

\* both constructors run load_memory on the file; unseen[i] and wrote[i] are
\* the timestamps of the conversations that the other instance has added
\* since instance i loaded, and that instance i has added
SharedInit ==
    /\ \E file \in EarlierFiles \cup BrokenFiles :
          LET r == LoadMemory(EmptyMemory, file)
          IN  shared = [mems |-> <<r.m, r.m>>, file |-> file, clock |-> MaxStored,
                        unseen |-> <<{}, {}>>, wrote |-> <<{}, {}>>,
                        last |-> [op |-> IF r.raised THEN "init raised" ELSE "init",
                                  who |-> 0, lost |-> {}, before |-> file]]
    /\ JudgeIdle /\ ExtractIdle /\ StreamIdle /\ MemoryIdle /\ RetrievalIdle /\ OrchIdle /\ CiteIdle /\ ContextIdle /\ RetryIdle /\ HookIdle

\* instance i calls load_memory
Reload(i) ==
    /\ shared.last.op \in {"init", "load", "add"}
    /\ shared.clock < MaxStored + MaxSharedOps
    /\ LET r == LoadMemory(shared.mems[i], shared.file)
       IN  shared' = [shared EXCEPT
                         !.mems[i] = r.m,
                         !.unseen[i] = {},
                         !.clock = @ + 1,
                         !.last = [op |-> IF r.raised THEN "raised" ELSE "load",
                                   who |-> i, lost |-> {}, before |-> shared.file]]
    /\ UNCHANGED <<judgeVars, extractVars, streamVars, memVars, retrVars, orchVars, cite, context, retry, hook>>

\* instance i calls add_conversation(user_input, "ok")
SharedAdd(i, user_input) ==
    /\ shared.last.op \in {"init", "load", "add"}
    /\ shared.clock < MaxStored + MaxSharedOps
    /\ LET now == shared.clock + 1
           m == AfterAdd(shared.mems[i], Conversation(now, user_input, <<"o", "k">>), now,
                         DefaultMaxWords, "none", <<>>, DefaultSummaryTarget)
       IN  shared' = [shared EXCEPT
                         !.mems[i] = m,
                         !.file = Saved(m, shared.file, "written").file,
                         !.clock = now,
                         !.unseen[3 - i] = @ \cup {now},
                         !.wrote[i] = @ \cup {now},
                         !.last = [op |-> "add", who |-> i, lost |-> shared.unseen[i],
                                   before |-> shared.file]]
    /\ UNCHANGED <<judgeVars, extractVars, streamVars, memVars, retrVars, orchVars, cite, context, retry, hook>>

SharedNext ==
    \/ \E i \in {1, 2} : Reload(i)
    \/ \E i \in {1, 2}, u \in UserInputs : SharedAdd(i, u)

SpecShared == SharedInit /\ [][SharedNext]_vars


\* C12 as stated: the construction of a MemoryManager never raises, whatever
\* the file holds, and a file that is missing or is no well-formed document
\* gives the empty memory.
C12_ConstructionNeverRaises ==
    /\ shared.last.op # "init raised"
    /\ (shared.last.op = "init" /\ shared.file \in {NoFile} \cup BrokenFiles) =>
          shared.mems = <<EmptyMemory, EmptyMemory>>

\* the timestamps of the conversations of a memory
Stamps(m) == {m.conversations[k].timestamp : k \in 1..Len(m.conversations)}

\* C17: after an add_conversation of one of two instances on the same file,
\* the file holds the document of that instance's memory, with none of the
\* conversations that the other instance has added since this one loaded; and
\* when this instance has loaded since the other's last add, the file holds
\* the conversations it held before, in their order, followed by the new one.
C17_LastWriterWins ==
    shared.last.op = "add" =>
        LET mine == shared.mems[shared.last.who]
        IN  /\ shared.file = Stored(mine)
            /\ Stamps(mine) \cap shared.last.lost = {}
            /\ (shared.last.lost = {} /\ shared.wrote[3 - shared.last.who] # {}) =>
                  /\ mine.conversations # <<>>
                  /\ DropLastN(mine.conversations, 1)
                        = AdoptedMemory(shared.last.before.j).m.conversations
                  /\ mine.conversations[Len(mine.conversations)].timestamp = shared.clock

\* one instance has added, the other has loaded and then added: the file
\* ends with the conversation of the one followed by that of the other
C17_Witness ==
    /\ shared.last.op = "add" /\ shared.last.lost = {}
    /\ LET convs == shared.mems[shared.last.who].conversations
       IN  /\ Len(convs) >= 2
           /\ convs[Len(convs) - 1].timestamp \in shared.wrote[3 - shared.last.who]
           /\ convs[Len(convs)].timestamp \in shared.wrote[shared.last.who]

(***************************************************************************)
(* CitationManager: add_citations and fill_citation_heuristic, after the   *)
(* specification of the Citation Engine (citations.py)                     *)
(***************************************************************************)
\* the number of pieces a text is made of
MaxPieces == 2

DigitChars == <<"0", "1", "2", "3", "4", "5", "6", "7", "8", "9">>

\* the value of a digit character, -1 for any other character
Digit(c) ==
    IF \E d \in 1..10 : DigitChars[d] = c
    THEN (CHOOSE d \in 1..10 : DigitChars[d] = c) - 1
    ELSE -1

\* the elements of a set of numbers, in increasing order
RECURSIVE Ascending(_)
Ascending(S) ==
    IF S = {} THEN <<>>
    ELSE LET least == CHOOSE x \in S : \A y \in S : x <= y
         IN  <<least>> \o Ascending(S \ {least})

\* the scan of answer_text from position i for bracket-number markers: cur is
\* -2 outside a group, -1 in a group before the digits of a number, and the
\* number read so far otherwise; pending are the numbers of the group that is
\* open, found those of the groups that are closed
RECURSIVE ScanCitations(_, _, _, _, _)
ScanCitations(text, i, cur, pending, found) ==
    IF i > Len(text) THEN found
    ELSE LET c == text[i]
         IN  CASE c = "[" -> ScanCitations(text, i + 1, -1, {}, found)
               [] Digit(c) >= 0 /\ cur = -2 -> ScanCitations(text, i + 1, -2, {}, found)
               [] Digit(c) >= 0 /\ cur = -1 -> ScanCitations(text, i + 1, Digit(c), pending, found)
               [] Digit(c) >= 0 /\ cur >= 0 ->
                     ScanCitations(text, i + 1, 10 * cur + Digit(c), pending, found)
               [] c = "," /\ cur >= 0 ->
                     ScanCitations(text, i + 1, -1, pending \cup {cur}, found)
               [] c = "]" /\ cur >= 0 ->
                     ScanCitations(text, i + 1, -2, {}, found \cup pending \cup {cur})
               [] OTHER -> ScanCitations(text, i + 1, -2, {}, found)

\* the sources given, [] when they are None
SourceList(sources) == IF sources.given THEN sources.list ELSE <<>>

\* the mutant of AddCitations that lists the references in the order of the
\* sources
AddCitationsInSourceOrder(text, sources) ==
    LET numbers == ScanCitations(text, 1, -2, {}, {})
        cited == SelectSeq(SourceList(sources), LAMBDA src : src.id \in numbers)
    IN  [cited_text |-> text,
         references |-> [k \in 1..Len(cited) |->
                            [number |-> cited[k].id, url |-> cited[k].url,
                             title |-> cited[k].title]]]

\* add_citations(answer_text, sources): the text unchanged, and a reference
\* for every number of a marker that is the id of a source
AddCitations(text, sources) ==
    LET list == SourceList(sources)
        numbers == ScanCitations(text, 1, -2, {}, {})
        order == Ascending({n \in numbers : \E k \in 1..Len(list) : list[k].id = n})
        SourceOf(n) ==
            list[CHOOSE k \in 1..Len(list) :
                    list[k].id = n /\ \A h \in 1..(k - 1) : list[h].id # n]
    IN  [cited_text |-> text,
         references |-> [k \in 1..Len(order) |->
                            [number |-> order[k], url |-> SourceOf(order[k]).url,
                             title |-> SourceOf(order[k]).title]]]

\* a character of a word
IsWordChar(c) == c \notin {" ", ".", ",", "[", "]"}

\* the words of a text: its maximal runs of word characters
WordsIn(text) ==
    {SubSeq(text, a, b) : <<a, b>> \in
        {r \in (1..Len(text)) \X (1..Len(text)) :
            /\ r[1] <= r[2]
            /\ \A i \in r[1]..r[2] : IsWordChar(text[i])
            /\ r[1] = 1 \/ ~IsWordChar(text[r[1] - 1])
            /\ r[2] = Len(text) \/ ~IsWordChar(text[r[2] + 1])}}

\* fill_citation_heuristic with the thresholds of levels, tried from the
\* strictest to the loosest: a source is attributed to a sentence when they
\* share at least that many words; the sources are numbered in the order in
\* which they are first cited, and the markers of a sentence stand at its end,
\* before the full stop
CiteAtLevels(text, sources, levels) ==
    LET list == SourceList(sources)
        starts == Ascending({1} \cup {i + 1 : i \in {j \in 1..(Len(text) - 1) : text[j] = "."}})
        StopOf(k) ==
            IF \E i \in starts[k]..Len(text) : text[i] = "."
            THEN CHOOSE i \in starts[k]..Len(text) :
                    text[i] = "." /\ \A h \in starts[k]..(i - 1) : text[h] # "."
            ELSE Len(text) + 1
        Shared(k, i) ==
            Cardinality(WordsIn(SubSeq(text, starts[k], StopOf(k) - 1))
                           \cap WordsIn(list[i].content))
        Hits(t) == {h \in (1..Len(starts)) \X (1..Len(list)) : Shared(h[1], h[2]) >= t}
        reached == {t \in levels : Hits(t) # {}}
    IN  IF reached = {} THEN [cited_text |-> text, references |-> <<>>]
        ELSE LET hit == Hits(CHOOSE t \in reached : \A u \in reached : u <= t)
                 used == {h[2] : h \in hit}
                 FirstIn(i) == CHOOSE k \in 1..Len(starts) :
                                  <<k, i>> \in hit /\ \A h \in 1..(k - 1) : <<h, i>> \notin hit
                 NumberOf(i) ==
                     1 + Cardinality({o \in used : \/ FirstIn(o) < FirstIn(i)
                                                   \/ FirstIn(o) = FirstIn(i) /\ o < i})
                 MarksOf(k) ==
                     LET here == Ascending({NumberOf(h[2]) : h \in {x \in hit : x[1] = k}})
                     IN  Join(<<>>, [x \in 1..Len(here) |-> <<"[", DigitChars[here[x] + 1], "]">>])
                 Marked(k) ==
                     SubSeq(text, starts[k], StopOf(k) - 1) \o MarksOf(k)
                        \o SubSeq(text, StopOf(k), Min(StopOf(k), Len(text)))
             IN  [cited_text |-> Join(<<>>, [k \in 1..Len(starts) |-> Marked(k)]),
                  references |->
                     [n \in 1..Cardinality(used) |->
                         LET src == list[CHOOSE i \in used : NumberOf(i) = n]
                         IN  [number |-> n, url |-> src.url, title |-> src.title]]]

\* the mutant of FillCitationHeuristic that relaxes the threshold to no
\* shared word at all
FillCitationHeuristicFabricates(text, sources) == CiteAtLevels(text, sources, {3, 2, 1, 0})

\* fill_citation_heuristic(answer_text, sources): the threshold starts at 3
\* shared words and is relaxed to 1
FillCitationHeuristic(text, sources) == CiteAtLevels(text, sources, {3, 2, 1})

(***************************************************************************)
(* SpecCite: one call of add_citations or of fill_citation_heuristic       *)
(***************************************************************************)
\* what the texts are made of: plain words, markers, groups, broken markers
CitePieces ==
    {<<"a", " ", "b", " ", "c">>, <<"d">>, <<".">>, <<" ">>, <<"1">>, <<",">>, <<"[">>, <<"]">>,
     <<"[", "1", "]">>, <<"[", "2", ",", "1", "]">>, <<"[", "1", ",", "2", ",", "3", "]">>,
     <<"[", ",", "1", "]">>, <<"[", "1", "2", "]">>, <<"[", "a", "]">>}

CiteTexts == {Join(<<>>, pieces) : pieces \in SeqsUpTo(CitePieces, MaxPieces)}

SourceWith(id, content) ==
    [id |-> id, url |-> <<"u", DigitChars[(id % 10) + 1]>>,
     title |-> <<"t", DigitChars[(id % 10) + 1]>>, content |-> content]

\* None, [], and lists of sources whose ids need not be in order
CiteSources ==
    {[given |-> FALSE, list |-> <<>>]}
       \cup {[given |-> TRUE, list |-> l] :
                l \in {<<>>,
                       <<SourceWith(1, <<"a", " ", "b", " ", "c">>)>>,
                       <<SourceWith(2, <<"c">>), SourceWith(1, <<"d", " ", "e">>)>>,
                       <<SourceWith(1, <<>>), SourceWith(2, <<"e">>), SourceWith(3, <<"a", ".", "b">>)>>,
                       <<SourceWith(12, <<"e">>)>>}}

CiteInit ==
    /\ \E text \in CiteTexts, sources \in CiteSources :
          cite = [text |-> text, sources |-> sources, op |-> "none",
                  out |-> [cited_text |-> <<>>, references |-> <<>>]]
    /\ JudgeIdle /\ ExtractIdle /\ StreamIdle /\ MemoryIdle /\ RetrievalIdle /\ OrchIdle /\ SharedIdle /\ ContextIdle /\ RetryIdle /\ HookIdle

AddCitationsCalled ==
    /\ cite.op = "none"
    /\ cite' = [cite EXCEPT !.op = "add_citations",
                            !.out = AddCitations(cite.text, cite.sources)]
    /\ UNCHANGED <<judgeVars, extractVars, streamVars, memVars, retrVars, orchVars, shared, context, retry, hook>>

FillCitationHeuristicCalled ==
    /\ cite.op = "none"
    /\ cite' = [cite EXCEPT !.op = "fill_citation_heuristic",
                            !.out = FillCitationHeuristic(cite.text, cite.sources)]
    /\ UNCHANGED <<judgeVars, extractVars, streamVars, memVars, retrVars, orchVars, shared, context, retry, hook>>

CiteNext == AddCitationsCalled \/ FillCitationHeuristicCalled

SpecCite == CiteInit /\ [][CiteNext]_vars

\* the value of a run of digits
RECURSIVE DecimalValue(_)
DecimalValue(digits) ==
    IF digits = <<>> THEN 0
    ELSE 10 * DecimalValue(SubSeq(digits, 1, Len(digits) - 1)) + Digit(digits[Len(digits)])

\* the number n stands in a bracket group of the text: between a "[" and a
\* "]" there are only digits and commas, every comma between two digits, and
\* one of the runs of digits is n
CitedIn(n, text) ==
    \E i, j \in 1..Len(text) :
        /\ i + 1 < j /\ text[i] = "[" /\ text[j] = "]"
        /\ \A k \in (i + 1)..(j - 1) :
              \/ Digit(text[k]) >= 0
              \/ text[k] = "," /\ Digit(text[k - 1]) >= 0 /\ Digit(text[k + 1]) >= 0
        /\ \E a, b \in (i + 1)..(j - 1) :
              /\ a <= b
              /\ \A k \in a..b : Digit(text[k]) >= 0
              /\ Digit(text[a - 1]) < 0 /\ Digit(text[b + 1]) < 0
              /\ DecimalValue(SubSeq(text, a, b)) = n

\* C18: add_citations returns the text unchanged; its references have
\* strictly increasing numbers, each the id of a source and with that
\* source's url and title; a source has a reference exactly when its id
\* stands in a bracket group of the text; and there is no reference when the
\* text has no marker or the sources are empty or None.
C18_AddCitations ==
    cite.op = "add_citations" =>
        LET refs == cite.out.references
            list == SourceList(cite.sources)
        IN  /\ cite.out.cited_text = cite.text
            /\ \A k \in 1..(Len(refs) - 1) : refs[k].number < refs[k + 1].number
            /\ \A k \in 1..Len(refs) :
                  \E h \in 1..Len(list) :
                      /\ list[h].id = refs[k].number
                      /\ list[h].url = refs[k].url /\ list[h].title = refs[k].title
            /\ \A h \in 1..Len(list) :
                  CitedIn(list[h].id, cite.text)
                     <=> \E k \in 1..Len(refs) : refs[k].number = list[h].id
            /\ (~cite.sources.given \/ list = <<>> \/ \A i \in 1..Len(cite.text) : cite.text[i] # "[")
                  => refs = <<>>

\* add_citations on a group that names the sources in another order than
\* their numbers, with a source that is not named
C18_Witness ==
    /\ cite.op = "add_citations"
    /\ cite.text = <<"[", "2", ",", "1", "]">>
    /\ Len(SourceList(cite.sources)) = 3
    /\ Len(cite.out.references) = 2

CallbackModes == {"none", "ok", "raise"}

\* what the completion service answers to the necessity prompt and to the
\* extraction prompt, as complete returns it
NecessityResponses ==
    {Returned(<<"Y">>), Returned(<<"N">>), Returned(<<"?">>), Raised}

ExtractionResponses ==
    {Returned(ArrayText(1)), Returned(ArrayText(4)), Returned(ArrayText(0)), Raised}

\* what the search service answers to query q; NoResults is also what
\* _tavily_search makes of every error
OrchSearchAnswers(q) == {Found(Page(q, 1, 2)), NoResults, NotADict}

\* what the completion service answers to the final prompt
FinalResponses(stream) ==
    IF stream
    THEN {Refused,
          Streamed(<<EvJson(ChunkWith(JStr(<<"a">>))), EvJson(ChunkWith(JStr(<<"b">>))), EvDone>>),
          Streamed(<<EvJson(ChunkWith(JStr(<<"a">>))), EvIOError>>)}
    ELSE {Refused, Body(<<"a", "b">>)}

Init ==
    /\ oStream \in BOOLEAN
    /\ oKey \in BOOLEAN
    /\ oCb \in [start : CallbackModes, queries : CallbackModes,
                done : CallbackModes, update : CallbackModes]
    /\ oPc = "judging"
    /\ oVerdict = "none"
    /\ oQueries = NotSubmitted
    /\ oCalls = <<>>
    /\ oSources = <<>>
    /\ oG = NotMade
    /\ oD = NotMade
    /\ oResult = NoResult
    /\ JudgeIdle /\ ExtractIdle /\ StreamIdle /\ MemoryIdle /\ RetrievalIdle /\ SharedIdle /\ CiteIdle /\ ContextIdle /\ RetryIdle /\ HookIdle

\* a worker runs _check_search_needed to its end; jResp keeps what complete
\* did for it
JudgeReturns ==
    /\ oVerdict = "none"
    /\ \E resp \in NecessityResponses :
          /\ jResp' = resp
          /\ oVerdict' = CheckSearchNeeded(resp)
    /\ UNCHANGED <<oStream, oKey, oCb, oPc, oQueries, oCalls, oSources, oG, oD, oResult>>
    /\ UNCHANGED <<jOut, extractVars, streamVars, memVars, retrVars, sideVars>>

\* a worker takes up _extract_search_queries_fast
ExtractStarts ==
    /\ oQueries.state = "pending"
    /\ oQueries' = [oQueries EXCEPT !.state = "running"]
    /\ UNCHANGED <<oStream, oKey, oCb, oPc, oVerdict, oCalls, oSources, oG, oD, oResult>>
    /\ UNCHANGED <<judgeVars, extractVars, streamVars, memVars, retrVars, sideVars>>

\* and runs it to its end
ExtractReturns ==
    /\ oQueries.state = "running"
    /\ \E resp \in ExtractionResponses :
          oQueries' = [state |-> "done", value |-> ExtractSearchQueriesFast(resp, UserQuery)]
    /\ UNCHANGED <<oStream, oKey, oCb, oPc, oVerdict, oCalls, oSources, oG, oD, oResult>>
    /\ UNCHANGED <<judgeVars, extractVars, streamVars, memVars, retrVars, sideVars>>

\* lines 61-72: the verdict asks for a search; up to search_queries_future.result()
SearchNeeded ==
    /\ oPc = "judging" /\ oVerdict # "none" /\ SearchWanted(oVerdict)
    /\ oCalls' = Notify(oCalls, oCb.start, "on_search_start", <<>>)
    /\ oPc' = "await_queries"
    /\ UNCHANGED <<oStream, oKey, oCb, oVerdict, oQueries, oSources, oG, oD, oResult>>
    /\ UNCHANGED <<judgeVars, extractVars, streamVars, memVars, retrVars, sideVars>>

\* lines 61-63, 93-103: the verdict asks for none; up to direct_answer_future.result()
NoSearchNeeded ==
    /\ oPc = "judging" /\ oVerdict # "none" /\ ~SearchWanted(oVerdict)
    /\ oQueries' = Cancel(oQueries)
    /\ oPc' = "direct"
    /\ UNCHANGED <<oStream, oKey, oCb, oVerdict, oCalls, oSources, oG, oD, oResult>>
    /\ UNCHANGED <<judgeVars, extractVars, streamVars, memVars, retrVars, sideVars>>

\* lines 72-85: the queries are there; up to the call of _get_search_grounded_response
QueriesReady ==
    /\ oPc = "await_queries" /\ oQueries.state = "done"
    /\ oCalls' = Notify(oCalls, oCb.queries, "on_search_queries_generated", oQueries.value)
    /\ oPc' = "grounding"
    /\ UNCHANGED <<oStream, oKey, oCb, oVerdict, oQueries, oSources, oG, oD, oResult>>
    /\ UNCHANGED <<judgeVars, extractVars, streamVars, memVars, retrVars, sideVars>>

\* lines 244-262: no search credential
MockSearch ==
    /\ oPc = "grounding" /\ ~oKey
    /\ oSources' = MockSources
    /\ oCalls' = Notify(oCalls, oCb.done, "on_search_done", MockSources)
    /\ oPc' = "mock_answer"
    /\ UNCHANGED <<oStream, oKey, oCb, oVerdict, oQueries, oG, oD, oResult>>
    /\ UNCHANGED <<judgeVars, extractVars, streamVars, memVars, retrVars, sideVars>>

\* lines 264-268, and 86-91 of the caller; an exception goes to line 360
MockAnswer ==
    /\ oPc = "mock_answer"
    /\ \E resp \in FinalResponses(oStream) :
          LET d == GetDirectAnswer(resp, oStream, oCb.update)
          IN  /\ oD' = Made(resp, d)
              /\ oCalls' = Logged(oCalls, d.updates)
              /\ IF d.state = "returned"
                 THEN /\ oResult' = ResultDict(MockResponse(d.full, oSources).response, TRUE,
                                             MockResponse(d.full, oSources).sources)
                      /\ oPc' = "exiting"
                 ELSE /\ oResult' = oResult
                      /\ oPc' = "fallback"
    /\ UNCHANGED <<oStream, oKey, oCb, oVerdict, oQueries, oSources, oG>>
    /\ UNCHANGED <<judgeVars, extractVars, streamVars, memVars, retrVars, sideVars>>

\* lines 270-322: the searches, the sources and on_search_done; an exception
\* goes to line 360
Search ==
    /\ oPc = "grounding" /\ oKey
    /\ LET n == Len(Take(oQueries.value, MaxQueries))
       IN  \E answers \in {a \in [1..n -> UNION {OrchSearchAnswers(q) : q \in 1..n}] :
                              \A q \in 1..n : a[q] \in OrchSearchAnswers(q)} :
              LET g == Gathered(answers)
                  sources == SourcesOf(UniqueResults(g.all))
              IN  IF g.ok
                  THEN /\ oSources' = sources
                       /\ oCalls' = Notify(oCalls, oCb.done, "on_search_done", sources)
                       /\ oPc' = "completing"
                  ELSE /\ oSources' = oSources
                       /\ oCalls' = oCalls
                       /\ oPc' = "fallback"
    /\ UNCHANGED <<oStream, oKey, oCb, oVerdict, oQueries, oG, oD, oResult>>
    /\ UNCHANGED <<judgeVars, extractVars, streamVars, memVars, retrVars, sideVars>>

\* lines 352-358, and 86-91 of the caller; an exception goes to line 360
GroundedComplete ==
    /\ oPc = "completing"
    /\ \E resp \in FinalResponses(oStream) :
          LET c == Complete(resp, oStream, oCb.update)
          IN  /\ oG' = Made(resp, c)
              /\ oCalls' = Logged(oCalls, c.updates)
              /\ IF c.state = "returned"
                 THEN /\ oResult' = ResultDict(c.full, TRUE, oSources)
                      /\ oPc' = "exiting"
                 ELSE /\ oResult' = oResult
                      /\ oPc' = "fallback"
    /\ UNCHANGED <<oStream, oKey, oCb, oVerdict, oQueries, oSources, oD>>
    /\ UNCHANGED <<judgeVars, extractVars, streamVars, memVars, retrVars, sideVars>>

\* lines 360-366, and 86-91 of the caller; an exception leaves the call
Fallback ==
    /\ oPc = "fallback"
    /\ \E resp \in FinalResponses(oStream) :
          LET d == GetDirectAnswer(resp, oStream, oCb.update)
          IN  /\ oD' = Made(resp, d)
              /\ oCalls' = Logged(oCalls, d.updates)
              /\ IF d.state = "returned"
                 THEN /\ oResult' = ResultDict(FallbackResponse(d.full, oSources).response, TRUE,
                                             FallbackResponse(d.full, oSources).sources)
                      /\ oPc' = "exiting"
                 ELSE /\ oResult' = oResult
                      /\ oPc' = "unwinding"
    /\ UNCHANGED <<oStream, oKey, oCb, oVerdict, oQueries, oSources, oG>>
    /\ UNCHANGED <<judgeVars, extractVars, streamVars, memVars, retrVars, sideVars>>

\* lines 98-109: a worker runs _get_direct_answer; an exception leaves the call
DirectAnswer ==
    /\ oPc = "direct"
    /\ \E resp \in FinalResponses(oStream) :
          LET d == GetDirectAnswer(resp, oStream, oCb.update)
          IN  /\ oD' = Made(resp, d)
              /\ oCalls' = Logged(oCalls, d.updates)
              /\ IF d.state = "returned"
                 THEN /\ oResult' = ResultDict(d.full, FALSE, <<>>)
                      /\ oPc' = "exiting"
                 ELSE /\ oResult' = oResult
                      /\ oPc' = "unwinding"
    /\ UNCHANGED <<oStream, oKey, oCb, oVerdict, oQueries, oSources, oG>>
    /\ UNCHANGED <<judgeVars, extractVars, streamVars, memVars, retrVars, sideVars>>

\* the with block of line 51 is left once no worker runs: the call returns
\* the dict, or raises
ExitWith ==
    /\ oPc \in {"exiting", "unwinding"}
    /\ oQueries.state \in {"done", "cancelled"}
    /\ oPc' = IF oPc = "exiting" THEN "returned" ELSE "raised"
    /\ UNCHANGED <<oStream, oKey, oCb, oVerdict, oQueries, oCalls, oSources, oG, oD, oResult>>
    /\ UNCHANGED <<judgeVars, extractVars, streamVars, memVars, retrVars, sideVars>>

Next ==
    \/ JudgeReturns
    \/ ExtractStarts
    \/ ExtractReturns
    \/ SearchNeeded
    \/ NoSearchNeeded
    \/ QueriesReady
    \/ MockSearch
    \/ MockAnswer
    \/ Search
    \/ GroundedComplete
    \/ Fallback
    \/ DirectAnswer
    \/ ExitWith

Spec == Init /\ [][Next]_vars

(***************************************************************************)
(* C1, C2, C6, C7                                                          *)
(***************************************************************************)
\* the position of a callback in the order start, queries, done, update
Stage(name) ==
    CASE name = "on_search_start"             -> 1
      [] name = "on_search_queries_generated" -> 2
      [] name = "on_search_done"              -> 3
      [] OTHER                                -> 4

CalledAt(name) == {i \in 1..Len(oCalls) : oCalls[i][1] = name}

\* a step of a call that has ended invokes no callback
SilentAfterReturn == (oPc \in {"returned", "raised"}) => (oCalls' = oCalls)

\* C1: in every state of a call the invocations so far are in the order
\* on_search_start, on_search_queries_generated, on_search_done, on_update:
\* each of the three on_search callbacks at most once, none of them after an
\* on_update, a later one only after the earlier ones that were given; and
\* once the call has returned no callback is invoked any more.
C1_CallbackOrder ==
    /\ [](/\ \A i, j \in 1..Len(oCalls) :
                i < j => /\ Stage(oCalls[i][1]) <= Stage(oCalls[j][1])
                         /\ Stage(oCalls[i][1]) = Stage(oCalls[j][1]) => Stage(oCalls[i][1]) = 4
          /\ (CalledAt("on_search_queries_generated") # {} /\ oCb.start # "none")
                => CalledAt("on_search_start") # {}
          /\ (CalledAt("on_search_done") # {} /\ oCb.queries # "none")
                => CalledAt("on_search_queries_generated") # {})
    /\ [][SilentAfterReturn]_vars

\* a call that fell back from a failed grounded stream has returned, with
\* all four callbacks invoked and on_update invoked by both requests
C1_Witness ==
    /\ oPc = "returned"
    /\ \A name \in {"on_search_start", "on_search_queries_generated", "on_search_done"} :
          CalledAt(name) # {}
    /\ oG.made /\ oG.out.state = "raised" /\ oG.out.updates # <<>>
    /\ oD.made /\ oD.out.updates # <<>>

\* C2: when the verdict is N none of the three on_search callbacks is ever
\* invoked and the grounded path is never entered, and the dict to return is
\* {answer: what _get_direct_answer returned, search_used: False,
\* sources: []}, whether the extraction was cancelled, runs or has finished.
C2_NoSearchPath ==
    oVerdict = "N" =>
        /\ \A i \in 1..Len(oCalls) : Stage(oCalls[i][1]) = 4
        /\ oPc \in {"judging", "direct", "exiting", "returned"}
        /\ ~oG.made /\ oSources = <<>>
        /\ oPc \in {"exiting", "returned"} =>
              /\ oD.made
              /\ oResult = [answer |-> oD.out.full, search_used |-> FALSE, sources |-> <<>>]

\* the dict is ready while the extraction still runs, all callbacks given
C2_Witness ==
    /\ oVerdict = "N" /\ oPc = "exiting"
    /\ oQueries.state = "running"
    /\ oCb.start # "none" /\ oCb.queries # "none" /\ oCb.done # "none"
    /\ oResult.answer # <<>>

\* the call took the path without a search credential
OnMockPath == SearchWanted(oVerdict) /\ ~oKey

\* C6: no exception leaves the call, whatever fails; and when the request of
\* the direct answer failed, the answer of the returned dict is the apology
\* with the error's text (followed by the mock-data note on the path without
\* a search credential).
C6_NothingRaised ==
    /\ oPc \notin {"unwinding", "raised"}
    /\ (oPc = "returned" /\ oD.made /\ Complete(oD.resp, oStream, oCb.update).state = "raised")
          => oResult.answer =
                Apology(Complete(oD.resp, oStream, oCb.update).error)
                  \o (IF OnMockPath THEN MockNote ELSE <<>>)

\* a search answer, the grounded request and the direct request have failed
\* by the services' doing, and the call has returned
C6_Witness ==
    /\ oPc = "returned"
    /\ oKey /\ oSources # <<>>
    /\ oG.made /\ oG.out.state = "raised" /\ oG.out.error = ConnectionError
    /\ oD.made /\ oD.resp = Refused
    /\ oCb.update # "raise"

\* a callback that raises, taken as one that returns
Quiet(callback) == IF callback = "raise" THEN "ok" ELSE callback

\* what _get_direct_answer returns on the answer served to it when on_update
\* does not raise
QuietDirect == GetDirectAnswer(oD.resp, oStream, Quiet(oCb.update)).full

\* the dict of the call on the answers served to it when no callback raises
QuietResult ==
    IF ~SearchWanted(oVerdict) THEN ResultDict(QuietDirect, FALSE, <<>>)
    ELSE IF ~oKey THEN ResultDict(QuietDirect \o MockNote, TRUE, oSources)
    ELSE IF ~oG.made THEN ResultDict(QuietDirect, TRUE, <<>>)
    ELSE LET g == Complete(oG.resp, oStream, Quiet(oCb.update))
         IN  IF g.state = "returned"
             THEN ResultDict(g.full, TRUE, oSources)
             ELSE ResultDict(QuietDirect, TRUE, <<>>)

\* C7: an exception of a callback never changes the outcome: the call
\* returns the answer, search_used and sources that it returns when the
\* callbacks do not raise.
C7_CallbacksContained ==
    oPc = "returned" => oResult = QuietResult

\* C20 as stated: when intelligent_complete returns, Conversation Memory has
\* gained exactly one conversation, whose user_input is the query and whose
\* assistant_response is the returned answer.
C20_ExchangeStored ==
    oPc = "returned" =>
        /\ Len(memory.conversations) = 1
        /\ memory.conversations[1].user_input = UserQuery
        /\ memory.conversations[1].assistant_response = oResult.answer

\* C21: when the completion call of the necessity judgment raises, the
\* verdict is N: the call takes the direct-answer path, no on_search callback
\* is invoked, no search and no grounded request is made, and the dict to
\* return has search_used False and no sources.
C21_JudgeFailureIsN ==
    (oVerdict # "none" /\ jResp = Raised) =>
        /\ oVerdict = "N"
        /\ oPc \in {"judging", "direct", "exiting", "returned"}
        /\ \A i \in 1..Len(oCalls) : Stage(oCalls[i][1]) = 4
        /\ ~oG.made /\ oSources = <<>>
        /\ oPc \in {"exiting", "returned"} =>
              /\ oD.made
              /\ oResult.search_used = FALSE /\ oResult.sources = <<>>

\* the necessity call has raised and the call has returned an answer, all
\* callbacks given and a search credential set
C21_Witness ==
    /\ jResp = Raised /\ oVerdict = "N" /\ oPc = "returned"
    /\ oKey
    /\ oCb.start # "none" /\ oCb.queries # "none" /\ oCb.done # "none"
    /\ oResult.answer # <<>>

\* the grounded retrieval has failed: a search answer made the gathering
\* raise, or the grounded completion request raised
GroundingFailed ==
    /\ SearchWanted(oVerdict) /\ oKey
    /\ oPc \in {"fallback", "exiting", "unwinding", "returned", "raised"}
    /\ ~oG.made \/ oG.out.state = "raised"

\* C22: when the grounded retrieval fails under verdict Y, the call asks for
\* a direct answer and the dict to return is {answer: what _get_direct_answer
\* returned, search_used: True, sources: []}, whatever on_search_done was
\* invoked with.
C22_FallsBackToDirect ==
    GroundingFailed =>
        /\ oPc \in {"fallback", "exiting", "returned"}
        /\ oPc \in {"exiting", "returned"} =>
              /\ oD.made
              /\ oResult = [answer |-> oD.out.full, search_used |-> TRUE, sources |-> <<>>]

\* the grounded stream broke off after on_search_done had been invoked with
\* sources, and the call has returned the direct answer
C22_Witness ==
    /\ GroundingFailed /\ oPc = "returned"
    /\ oG.made /\ oG.out.updates # <<>>
    /\ \E i \in 1..Len(oCalls) : oCalls[i] = <<"on_search_done", oSources>>
    /\ oSources # <<>>
    /\ oD.out.full = <<"a", "b">>

\* C23: without a search credential and with verdict Y, no search and no
\* grounded request is made; on_search_done is invoked exactly once, with the
\* single mock source of id 1, before the direct-answer request starts; and
\* the dict to return has the direct answer followed by the mock-data note,
\* search_used True and that mock source as sources.
C23_MockPath ==
    (OnMockPath /\ oPc \in {"mock_answer", "exiting", "returned"}) =>
        /\ oSources = MockSources
        /\ Len(oSources) = 1 /\ oSources[1].id = 1
        /\ ~oG.made
        /\ oCb.done # "none" =>
              /\ Cardinality(CalledAt("on_search_done")) = 1
              /\ \A i \in CalledAt("on_search_done") :
                    /\ oCalls[i][2] = MockSources
                    /\ \A j \in CalledAt("on_update") : i < j
        /\ oPc = "mock_answer" => ~oD.made
        /\ oPc \in {"exiting", "returned"} =>
              /\ oD.made
              /\ oResult = [answer |-> oD.out.full \o MockNote, search_used |-> TRUE,
                            sources |-> MockSources]

\* the call has returned on the path without a search credential, after
\* on_search_done and on_update were invoked
C23_Witness ==
    /\ OnMockPath /\ oPc = "returned"
    /\ CalledAt("on_search_done") # {} /\ CalledAt("on_update") # {}
    /\ oD.out.full = <<"a", "b">>

(***************************************************************************)
(* SpecComplete: the search grounding of complete(search_grounding=True),  *)
(* lines 411-502, up to the sources; the retrieval variables hold its one  *)
(* search and its sources                                                  *)
(***************************************************************************)
\* the number of results of an answer of the search service, all answers up
\* to that length being taken
MaxPage == 3

\* solar.py line 439: max_results is 10
CompleteResults == 10

\* line 450: a result is kept unless an equal result follows it
WithoutEqualLater(all) ==
    LET kept == Ascending({n \in 1..Len(all) : \A h \in (n + 1)..Len(all) : all[h] # all[n]})
    IN  [k \in 1..Len(kept) |-> all[kept[k]]]

\* lines 455-469: sources
CompleteSources(results) == [i \in 1..Len(results) |-> Source(i, results[i])]

\* results with the same url and another title, another url, no url
SampleResults ==
    {SearchResult(1, <<1, 1>>), SearchResult(1, <<1, 2>>), SearchResult(2, <<1, 1>>),
     SearchResult(0, <<1, 1>>)}

\* what the search service may answer to the prompt
CompleteAnswers ==
    {NoResults, NotADict}
      \cup {Found(page) : page \in SeqsUpTo(SampleResults, MaxPage) \ {<<>>}}
      \cup {Found(Page(1, 1, n)) : n \in {CompleteResults, CompleteResults + 1}}

\* lines 411-429: with or without TAVILY_API_KEY; queries is [prompt]
CompleteInit ==
    /\ rResp \in {<<answer>> : answer \in CompleteAnswers}
    /\ rDone = {}
    /\ rAll = <<>>
    /\ rTaken = 0
    /\ rSources = <<>>
    /\ rPc \in {"no credential", "grounding"}
    /\ JudgeIdle /\ ExtractIdle /\ StreamIdle /\ MemoryIdle /\ OrchIdle /\ SharedIdle /\ CiteIdle /\ ContextIdle /\ RetryIdle /\ HookIdle

\* lines 416-420: no search, no sources
CompleteUngrounded ==
    /\ rPc = "no credential"
    /\ rPc' = "prompted"
    /\ UNCHANGED <<rResp, rDone, rAll, rTaken, rSources>>
    /\ UNCHANGED <<judgeVars, extractVars, streamVars, memVars, orchVars, sideVars>>

\* the worker of search_executor finishes _tavily_search
CompleteSearched ==
    /\ rPc = "grounding" /\ rDone = {}
    /\ rDone' = {1}
    /\ UNCHANGED <<rResp, rAll, rTaken, rSources, rPc>>
    /\ UNCHANGED <<judgeVars, extractVars, streamVars, memVars, orchVars, sideVars>>

\* lines 443-446: future.result() and search_response.get('results', []); an
\* AttributeError on a non-dict goes to the except of line 498, and the
\* prompt stays ungrounded
CompleteTakes ==
    /\ rPc = "grounding" /\ rDone = {1}
    /\ rTaken' = 1
    /\ IF rResp[1].dict
       THEN rAll' = rResp[1].results /\ rPc' = "gathered"
       ELSE rAll' = rAll /\ rPc' = "prompted"
    /\ UNCHANGED <<rResp, rDone, rSources>>
    /\ UNCHANGED <<judgeVars, extractVars, streamVars, memVars, orchVars, sideVars>>

\* lines 449-492: the duplicates are removed, the sources built
CompleteFormats ==
    /\ rPc = "gathered"
    /\ rSources' = CompleteSources(WithoutEqualLater(rAll))
    /\ rPc' = "prompted"
    /\ UNCHANGED <<rResp, rDone, rAll, rTaken>>
    /\ UNCHANGED <<judgeVars, extractVars, streamVars, memVars, orchVars, sideVars>>

CompleteNext ==
    \/ CompleteUngrounded
    \/ CompleteSearched
    \/ CompleteTakes
    \/ CompleteFormats

SpecComplete == CompleteInit /\ [][CompleteNext]_vars

\* C24 as stated, for complete(search_grounding=True): the sources are never
\* more than 10, and they are the first ones of the deduplicated list.
C24_AtMostTen ==
    rPc = "prompted" =>
        /\ Len(rSources) <= CompleteResults
        /\ \A k \in 1..Len(rSources) : rSources[k] = Source(k, WithoutEqualLater(rAll)[k])

\* C25 as stated: in complete(search_grounding=True) every url of the results
\* has exactly one source, built from the first result with that url, and
\* the sources are in the order in which their urls occur first.
C25_UrlIdentity ==
    (rPc = "prompted" /\ rTaken = 1 /\ rResp[1].dict) =>
        /\ \A i \in FirstAt(rAll) :
              /\ Cardinality(EntriesOf(rAll[i].url)) = 1
              /\ \A k \in EntriesOf(rAll[i].url) : rSources[k].title = rAll[i].title
        /\ \A k, l \in 1..Len(rSources) :
              k < l => \E i, j \in FirstAt(rAll) :
                          /\ i < j
                          /\ rAll[i].url = rSources[k].url
                          /\ rAll[j].url = rSources[l].url

\* the positions of all_search_results at which a url occurs first, up to p
FirstUpTo(all, p) == {h \in FirstAt(all) : h <= p}

\* C26 as stated: the ids of the sources of grounded retrieval are 1..n in
\* list order, their urls differ pairwise, and every result with a url not
\* seen earlier has a source, up to the cap of 15, the results without url
\* included (the missing url being one url).
C26_EveryResultRepresented ==
    rPc = "formatted" =>
        /\ \A k \in 1..Len(rSources) : rSources[k].id = k
        /\ \A k, l \in 1..Len(rSources) : k # l => rSources[k].url # rSources[l].url
        /\ Len(rSources) = Min(MaxSources, Cardinality(FirstAt(rAll)))
        /\ \A p \in FirstAt(rAll) :
              Cardinality(FirstUpTo(rAll, p)) <= MaxSources => EntriesOf(rAll[p].url) # {}

\* C26 (amended): the ids are 1..n in list order, the urls differ pairwise,
\* every result with a non-empty url not seen earlier has a source, up to
\* the cap of 15, and a result without url has none.
C26_WellFormed ==
    rPc = "formatted" =>
        /\ \A k \in 1..Len(rSources) : rSources[k].id = k
        /\ \A k, l \in 1..Len(rSources) : k # l => rSources[k].url # rSources[l].url
        /\ Len(rSources) = Min(MaxSources, Cardinality({rAll[p].url : p \in 1..Len(rAll)} \ {0}))
        /\ \A p \in FirstAt(rAll) :
              IF rAll[p].url = 0
              THEN EntriesOf(0) = {}
              ELSE RankAt(rAll, p) <= MaxSources => EntriesOf(rAll[p].url) # {}

\* sources were built from results of which one has no url and two have
\* the same
C26_Witness ==
    /\ rPc = "formatted"
    /\ Len(rSources) > 1
    /\ \E p \in 1..Len(rAll) : rAll[p].url = 0
    /\ \E p, h \in 1..Len(rAll) : p < h /\ rAll[p].url = rAll[h].url /\ rAll[p].url # 0

(***************************************************************************)
(* SpecLive: the same call under fair scheduling                           *)
(***************************************************************************)
\* the steps of the calling thread and of the workers that end once they
\* are taken up; they go on as long as the threads are scheduled
CallerStep ==
    \/ ExtractStarts
    \/ SearchNeeded
    \/ NoSearchNeeded
    \/ QueriesReady
    \/ MockSearch
    \/ Search
    \/ ExitWith

\* requests.post has no timeout (lines 382, 544, 558): a worker that waits
\* for the completion service may wait for ever, so there is no fairness
\* for JudgeReturns, ExtractReturns and the final completions
SpecLive == Init /\ [][Next]_vars /\ WF_vars(CallerStep)

\* C27 as stated: once the verdict is N and the direct answer has come
\* back, intelligent_complete returns, whether or not the extraction task
\* ever ends.
C27_ReturnsWithoutExtraction ==
    (oPc = "exiting" /\ oVerdict = "N") ~> (oPc = "returned")

(***************************************************************************)
(* C28                                                                     *)
(***************************************************************************)
\* C28: after an add_conversation whose summarization called the LLM
\* function and got its output, the summary is that output, the
\* conversations are the last 3 of the list with the new conversation, in
\* their order and the new one last, and nothing else was done to the
\* memory: one call, one summarization, whatever word_count has become.
C28_LLMSummary ==
    (memOp \in {"add", "raised"} /\ memPre.ran /\ llmDid = "ok") =>
        /\ memory.summary = llmOut
        /\ memory.conversations = LastN(memPre.m.conversations, KeepLLM)
        /\ memory.conversations[Len(memory.conversations)].timestamp = clock
        /\ memory = UpdateWordCount([memPre.m EXCEPT !.summary = llmOut,
                                                     !.conversations = memory.conversations])

\* the LLM function summarized a list of more than 5 conversations, and the
\* memory is still over max_words
C28_Witness ==
    /\ memOp = "add" /\ memPre.ran /\ llmDid = "ok"
    /\ Len(memPre.m.conversations) > KeepHeuristic
    /\ Len(memory.conversations) = KeepLLM
    /\ memory.word_count > maxWords

(***************************************************************************)
(* SpecFallback: _summarize_memory() without LLM function on every memory  *)
(* of up to MaxConversations conversations                                 *)
(***************************************************************************)
MaxConversations == 7

\* a user_input of more than 100 characters, the 100th inside a word
LongInput == [i \in 1..(TopicChars + 1) |-> IF i % 3 = 0 THEN " " ELSE "w"]

FallbackInputs == {<<"h", "i">>, LongInput}

FallbackSummaries == {<<>>, <<"s", " ", "s">>}

FallbackTargets == {0, 3, DefaultSummaryTarget}

FallbackInit ==
    /\ summaryTarget \in FallbackTargets
    /\ \E n \in 0..MaxConversations, summary \in FallbackSummaries :
          \E inputs \in [1..n -> FallbackInputs] :
              memory = UpdateWordCount(
                          [conversations |-> [i \in 1..n |-> Conversation(i, inputs[i], <<"o", "k">>)],
                           summary |-> summary, last_updated |-> n, word_count |-> 0])
    /\ maxWords = 0
    /\ llmGiven = FALSE
    /\ disk = [kind |-> "missing", j |-> JNull]
    /\ clock = 0
    /\ memOp = "init"
    /\ memPre = [ran |-> FALSE, m |-> EmptyMemory]
    /\ llmDid = "notcalled"
    /\ llmOut = <<>>
    /\ saveDid = "none"
    /\ JudgeIdle /\ ExtractIdle /\ StreamIdle /\ RetrievalIdle /\ OrchIdle /\ SharedIdle /\ CiteIdle /\ ContextIdle /\ RetryIdle /\ HookIdle

\* _summarize_memory(), lines 195-238
SummarizeFallback ==
    /\ memOp = "init"
    /\ memory' = SummarizeMemory(memory, "none", <<>>, summaryTarget)
    /\ memPre' = [ran |-> TRUE, m |-> memory]
    /\ memOp' = "fallback"
    /\ UNCHANGED <<maxWords, summaryTarget, llmGiven, disk, clock, llmDid, llmOut, saveDid>>
    /\ UNCHANGED <<judgeVars, extractVars, streamVars, retrVars, orchVars, sideVars>>

SpecFallback == FallbackInit /\ [][SummarizeFallback]_vars

\* the summary followed by one topic for each conversation from the i-th on
RECURSIVE TopicsAfter(_, _, _)
TopicsAfter(summary, older, i) ==
    IF i > Len(older) THEN summary
    ELSE TopicsAfter((IF summary = <<>> THEN <<>> ELSE summary \o <<" ", "|", " ">>)
                        \o <<"T", "o", "p", "i", "c", ":", " ">>
                        \o SubSeq(older[i].user_input, 1, Min(TopicChars, Len(older[i].user_input))),
                     older, i + 1)

\* what the claim says of the fallback, with `limit` the most words the new
\* summary may have
FallbackDid(limit) ==
    LET pre == memPre.m
        n == Len(pre.conversations)
        full == TopicsAfter(pre.summary, SubSeq(pre.conversations, 1, n - KeepHeuristic), 1)
    IN  IF n <= KeepHeuristic
        THEN memory.summary = pre.summary /\ memory.conversations = pre.conversations
        ELSE /\ memory.conversations = SubSeq(pre.conversations, n - KeepHeuristic + 1, n)
             /\ Tokens(memory.summary) <= limit
             /\ IF Tokens(full) <= summaryTarget
                THEN memory.summary = full
                ELSE memory.summary = Join(<<" ">>, WordsFrom(full, 1, summaryTarget)) \o Ellipsis

\* C29 as stated: the fallback on more than 5 conversations keeps the last 5
\* and makes the summary of the old summary and one topic, of the first 100
\* characters of the user_input, for each discarded conversation, cut to
\* summary_target words, so that the summary never has more than
\* summary_target words; on 5 or fewer it changes neither.
C29_NeverOverTarget ==
    memOp = "fallback" => FallbackDid(summaryTarget)

\* C29 (amended): the same, the summary having at most summary_target words
\* when summary_target is 1 or more, and the one word "..." when it is 0.
C29_CutToTarget ==
    memOp = "fallback" =>
        /\ FallbackDid(Max(summaryTarget, 1))
        /\ (summaryTarget = 0 /\ Len(memPre.m.conversations) > KeepHeuristic)
              => memory.summary = Ellipsis

\* the fallback discarded a conversation with a user_input of more than 100
\* characters, there was a summary, and the new summary was cut
C29_Witness ==
    /\ memOp = "fallback"
    /\ Len(memPre.m.conversations) > KeepHeuristic
    /\ Len(memPre.m.conversations[1].user_input) > TopicChars
    /\ memPre.m.summary # <<>>
    /\ summaryTarget > 0
    /\ Tokens(memory.summary) = summaryTarget
    /\ Len(memory.summary) > Len(memPre.m.summary) + Len(Ellipsis)

(***************************************************************************)
(* SpecContext: get_context on every memory of up to MaxContextConversations *)
(* conversations                                                           *)
(***************************************************************************)
MaxContextConversations == 11

\* the i-th conversation has the i-th letter in its user_input
Letters == <<"a", "b", "c", "d", "e", "f", "g", "h", "i", "j", "k", "l", "m", "n">>

UserInputOf(i) == <<"q", Letters[i]>>

\* an assistant_response of more than 500 characters, in words of 49
LongResponse == [i \in 1..(ResponseChars + 1) |-> IF i % 50 = 0 THEN " " ELSE "w"]

\* the assistant_response of conversation i of n: all empty, all of two
\* words, or the first and the last long
ResponseKinds == {"empty", "short", "long"}

ResponseOf(kind, i, n) ==
    CASE kind = "empty" -> <<>>
      [] kind = "short" -> <<"o", "k", " ", "o", "k">>
      [] OTHER -> IF i \in {1, n} THEN LongResponse ELSE <<"o", "k">>

ContextSummaries == {<<>>, <<"s", " ", "s">>}

\* max_context_words; 2000 is the default
ContextLimits == {0, 1, 2, 7, 2000}

ContextInit ==
    /\ \E n \in 0..MaxContextConversations, summary \in ContextSummaries, kind \in ResponseKinds :
          memory = UpdateWordCount(
                      [conversations |->
                           [i \in 1..n |-> Conversation(i, UserInputOf(i), ResponseOf(kind, i, n))],
                       summary |-> summary, last_updated |-> n, word_count |-> 0])
    /\ context = [op |-> "off", max |-> 0, out |-> <<>>]
    /\ maxWords = DefaultMaxWords
    /\ summaryTarget = DefaultSummaryTarget
    /\ llmGiven = FALSE
    /\ disk = [kind |-> "missing", j |-> JNull]
    /\ clock = 0
    /\ memOp = "init"
    /\ memPre = [ran |-> FALSE, m |-> EmptyMemory]
    /\ llmDid = "notcalled"
    /\ llmOut = <<>>
    /\ saveDid = "none"
    /\ JudgeIdle /\ ExtractIdle /\ StreamIdle /\ RetrievalIdle /\ OrchIdle /\ SharedIdle /\ CiteIdle /\ RetryIdle /\ HookIdle

\* get_context(max_context_words)
GetContextCalled(max_context_words) ==
    /\ context.op = "off"
    /\ context' = [op |-> "get_context", max |-> max_context_words,
                   out |-> GetContext(memory, max_context_words)]
    /\ UNCHANGED <<judgeVars, extractVars, streamVars, memVars, retrVars, orchVars, shared, cite, retry, hook>>

ContextNext == \E max_context_words \in ContextLimits : GetContextCalled(max_context_words)

SpecContext == ContextInit /\ [][ContextNext]_vars

\* the number of words of a text of blanks and newlines
WordCount(text) ==
    Cardinality({i \in 1..Len(text) :
                    /\ text[i] \notin {" ", "\n"}
                    /\ (i = Len(text) \/ text[i + 1] \in {" ", "\n"})})

\* the user_input of conversation i stands in the text
Rendered(i, text) ==
    \E k \in 1..(Len(text) - 1) : SubSeq(text, k, k + 1) = UserInputOf(i)

\* what the claim says of get_context, with `limit` the most words the
\* context may have
ContextIs(limit) ==
    LET n == Len(memory.conversations)
    IN  /\ WordCount(context.out) <= limit
        /\ context.out = <<>> <=> (memory.summary = <<>> /\ n = 0)
        /\ \A i \in 1..n : Rendered(i, context.out) => i > n - RecentConversations
        /\ WordCount(context.out) < context.max =>
              \A i \in 1..n : i > n - RecentConversations => Rendered(i, context.out)

\* C30 as stated: get_context(max_context_words) never returns more than
\* max_context_words words, it returns the empty string exactly when there
\* is neither summary nor conversation, and it renders only the last 10
\* conversations (all of them when nothing is cut).
C30_NeverOverLimit ==
    context.op = "get_context" => ContextIs(context.max)

\* C30 (amended): the same, the context having at most max_context_words
\* words when max_context_words is 1 or more, and being the one word "..."
\* when it is 0 and there is a summary or a conversation.
C30_CutToLimit ==
    context.op = "get_context" =>
        /\ ContextIs(Max(context.max, 1))
        /\ (context.max = 0 /\ context.out # <<>>) => context.out = Ellipsis

\* get_context cut the context of a summary and more than 10 conversations,
\* with a response of more than 500 characters, to max_context_words words
C30_Witness ==
    /\ context.op = "get_context"
    /\ Len(memory.conversations) > RecentConversations
    /\ memory.summary # <<>>
    /\ Len(memory.conversations[Len(memory.conversations)].assistant_response) > ResponseChars
    /\ context.max > 0
    /\ WordCount(context.out) = context.max

(***************************************************************************)
(* C34                                                                     *)
(***************************************************************************)
\* C34 as stated: when on_search_done was invoked in a call that returns,
\* the sources of the result are the list on_search_done was invoked with.
C34_SourcesAsAnnounced ==
    oPc \in {"exiting", "returned"} =>
        \A i \in CalledAt("on_search_done") : oResult.sources = oCalls[i][2]

\* C34 (amended): the sources of the result are the list on_search_done was
\* invoked with when the grounded request succeeded; when it failed after
\* on_search_done, the result is the fallback with no sources, whatever the
\* list was.
C34_SourcesUnlessFallback ==
    oPc \in {"exiting", "returned"} =>
        \A i \in CalledAt("on_search_done") :
            /\ oCalls[i][2] = oSources
            /\ oResult.sources = IF GroundingFailed THEN <<>> ELSE oSources

\* on_search_done was invoked with sources and the call returned them with
\* the grounded answer
C34_Witness ==
    /\ oPc = "returned" /\ oKey
    /\ CalledAt("on_search_done") # {}
    /\ oSources # <<>>
    /\ ~GroundingFailed
    /\ oResult.sources = oSources

(***************************************************************************)
(* C35                                                                     *)
(***************************************************************************)
\* the chunks on_update was invoked with, in the order of the invocations
UpdateChunks ==
    LET at == Ascending(CalledAt("on_update"))
    IN  [k \in 1..Len(at) |-> oCalls[at[k]][2]]

\* C35 as stated: with stream=True and an on_update callback, the answer
\* of a call that returns is the concatenation of the chunks on_update was
\* invoked with, on every path.
C35_AnswerIsStreamed ==
    (oPc \in {"exiting", "returned"} /\ oStream /\ oCb.update # "none") =>
        oResult.answer = Concat(UpdateChunks)

\* C35 (amended): on_update gets the chunks of the grounded request and then
\* those of the direct request; the answer is the concatenation of the
\* chunks of the last request made when that request ended without error
\* and the apology with the error otherwise, followed by the mock-data note
\* on the path without search credential.
C35_AnswerOfLastRequest ==
    (oPc \in {"exiting", "returned"} /\ oStream /\ oCb.update # "none") =>
        LET last == IF oD.made THEN oD.out ELSE oG.out
        IN  /\ UpdateChunks = oG.out.updates \o oD.out.updates
            /\ oResult.answer =
                  (IF last.error = <<>> THEN Concat(last.updates) ELSE Apology(last.error))
                     \o (IF OnMockPath THEN MockNote ELSE <<>>)

\* a streamed call returned the two chunks of the direct request after the
\* grounded stream had passed a chunk and broken off
C35_Witness ==
    /\ oPc = "returned" /\ oStream /\ oCb.update = "ok"
    /\ oG.made /\ oG.out.state = "raised" /\ Len(oG.out.updates) = 1
    /\ oD.made /\ oD.out.error = <<>> /\ Len(oD.out.updates) = 2
    /\ Len(UpdateChunks) = 3
    /\ oResult.answer = Concat(oD.out.updates)

(***************************************************************************)
(* C36                                                                     *)
(***************************************************************************)
\* the results of the queries 1..n, query after query
RECURSIVE ResultsOfFirst(_)
ResultsOfFirst(n) ==
    IF n = 0 THEN <<>> ELSE ResultsOfFirst(n - 1) \o rResp[n].results

IsSuffix(a, b) ==
    /\ Len(a) <= Len(b)
    /\ a = SubSeq(b, Len(b) - Len(a) + 1, Len(b))

\* an add_conversation leaves a suffix of the list with the new conversation
\* appended, the new conversation, as it was appended, being its last; every
\* other operation leaves a suffix of the list
SuffixKept ==
    IF Len(memPre'.m.conversations) = Len(memory.conversations) + 1
    THEN /\ SubSeq(memPre'.m.conversations, 1, Len(memory.conversations)) = memory.conversations
         /\ memPre'.m.conversations[Len(memPre'.m.conversations)].timestamp = clock'
         /\ memory'.conversations # <<>>
         /\ IsSuffix(memory'.conversations, memPre'.m.conversations)
    ELSE IsSuffix(memory'.conversations, memory.conversations)

\* C37: every operation keeps a contiguous suffix of the conversations in
\* their order, and after add_conversation, on either summarization path,
\* the conversation just added is the last of the list, unaltered; so the
\* list is always a suffix of the conversations added.
C37_SuffixOfAdded == [][SuffixKept]_vars

\* an add_conversation summarized without the LLM function and dropped
\* conversations from the front of a list that an earlier add had extended
C37_Witness ==
    /\ memOp = "add" /\ memPre.ran /\ llmDid # "ok"
    /\ clock = MaxStored + MaxOps
    /\ Len(memPre.m.conversations) > KeepHeuristic
    /\ Len(memory.conversations) = KeepHeuristic
    /\ IsSuffix(memory.conversations, memPre.m.conversations)
    /\ memory.conversations[KeepHeuristic].timestamp = clock
    /\ memory.conversations[KeepHeuristic - 1].timestamp > MaxStored

(***************************************************************************)
(* send_message_with_retry (src/telegram_utils.py): up to MAX_RETRIES      *)
(* calls of send_func, a sleep between them after a flood-control error.   *)
(***************************************************************************)
\* TelegramConfig.MAX_RETRIES
MaxRetries == 3

\* TelegramConfig.RETRY_DELAYS
RetryDelays == <<5, 10, 15>>

\* str.lower on one character of the error texts
LowerChar(c) ==
    CASE c = "F" -> "f"
      [] c = "C" -> "c"
      [] c = "T" -> "t"
      [] OTHER -> c

Lower(s) == [i \in 1..Len(s) |-> LowerChar(s[i])]

FloodControlText == <<"f", "l", "o", "o", "d", " ", "c", "o", "n", "t", "r", "o", "l">>

\* "flood control" in str(e).lower()
IsFloodControl(e) == IsSubstr(FloodControlText, Lower(e))

\* what the chat platform answers to a flood: RetryAfter's message
FloodControlExceeded == <<"F", "l", "o", "o", "d", " ", "c", "o", "n", "t", "r", "o", "l", " ", "e", "x", "c", "e", "e", "d", "e", "d">>

FloodControlLower == <<"t", "o", "o", " ", "f", "a", "s", "t", ":", " ", "f", "l", "o", "o", "d", " ", "c", "o", "n", "t", "r", "o", "l">>

TimedOut == <<"T", "i", "m", "e", "d", " ", "o", "u", "t">>

Forbidden == <<"F", "o", "r", "b", "i", "d", "d", "e", "n">>

\* one call of send_func: it returns a message or raises an error
SendOutcomes ==
    {[kind |-> "ok", text |-> <<"m">>]}
    \cup {[kind |-> "error", text |-> e] :
              e \in {FloodControlExceeded, FloodControlLower, TimedOut, Forbidden}}

NoneValue == <<"N", "o", "n", "e">>

RetryInit ==
    /\ retry \in {[does |-> d, attempt |-> 0, state |-> "trying", value |-> <<>>, waited |-> <<>>] :
                      d \in [1..MaxRetries -> SendOutcomes]}
    /\ JudgeIdle /\ ExtractIdle /\ StreamIdle /\ MemoryIdle /\ RetrievalIdle /\ OrchIdle
    /\ SharedIdle /\ CiteIdle /\ ContextIdle /\ HookIdle

\* one turn of `for attempt in range(TelegramConfig.MAX_RETRIES)`, and the
\* `return None` after the loop when the turn ends with break
Attempt ==
    /\ retry.state = "trying"
    /\ retry.attempt < MaxRetries
    /\ LET attempt == retry.attempt
           did == retry.does[attempt + 1]
       IN  retry' =
               IF did.kind = "ok"
               THEN [retry EXCEPT !.attempt = attempt + 1, !.state = "returned", !.value = did.text]
               ELSE IF IsFloodControl(did.text) /\ attempt < MaxRetries - 1
               THEN [retry EXCEPT !.attempt = attempt + 1,
                                  !.waited = Append(@, RetryDelays[attempt + 1])]
               ELSE IF attempt = MaxRetries - 1
               THEN [retry EXCEPT !.attempt = attempt + 1, !.state = "raised", !.value = did.text]
               ELSE [retry EXCEPT !.attempt = attempt + 1, !.state = "returned", !.value = NoneValue]
    /\ UNCHANGED <<judgeVars, extractVars, streamVars, memVars, retrVars, orchVars,
                   shared, cite, context, hook>>

SpecRetry == RetryInit /\ [][Attempt]_vars

\* the calls of send_func made so far
Attempts == [i \in 1..retry.attempt |-> retry.does[i]]

\* C33: at most MAX_RETRIES attempts, each attempt but the first after a
\* flood-control error, the value returned is the value of the successful
\* attempt, and a call without a successful attempt raises its last error
\* and never returns None.
C33_NeverNone ==
    /\ retry.attempt <= MaxRetries
    /\ \A i \in 1..(retry.attempt - 1) :
           Attempts[i].kind = "error" /\ IsFloodControl(Attempts[i].text)
    /\ retry.state = "returned" =>
           /\ Attempts[retry.attempt].kind = "ok"
           /\ retry.value = Attempts[retry.attempt].text
    /\ (retry.state # "trying" /\ Attempts[retry.attempt].kind = "error") =>
           /\ retry.state = "raised"
           /\ retry.value = Attempts[retry.attempt].text

\* the part of C33 the code keeps: the attempts, the retries and the value
\* of a successful attempt
C33_Attempts ==
    /\ retry.attempt <= MaxRetries
    /\ \A i \in 1..(retry.attempt - 1) :
           Attempts[i].kind = "error" /\ IsFloodControl(Attempts[i].text)
    /\ Len(retry.waited) = (IF retry.state = "trying" THEN retry.attempt ELSE retry.attempt - 1)
    /\ \A i \in 1..Len(retry.waited) : retry.waited[i] = RetryDelays[i]
    /\ (retry.state = "returned" /\ Attempts[retry.attempt].kind = "ok") =>
           retry.value = Attempts[retry.attempt].text
    /\ retry.state = "raised" =>
           /\ retry.attempt = MaxRetries
           /\ retry.value = Attempts[MaxRetries].text

\* the same error ends the call in two ways: raised from the last attempt,
\* None from an earlier one
C33_NoneInsteadOfRaise ==
    /\ retry.state = "returned" /\ retry.value = NoneValue
    /\ retry.attempt = MaxRetries - 1
    /\ Attempts[retry.attempt] = [kind |-> "error", text |-> TimedOut]

C33_RaisedAtLast ==
    /\ retry.state = "raised" /\ retry.value = TimedOut
    /\ Len(retry.waited) = MaxRetries - 1

(***************************************************************************)
(* telegram_webhook and TelegramWebhookHandler (src/main.py): one request  *)
(* from the creation of the bot to the response.  A text of the chat is a  *)
(* sequence of characters; a time is in tenths of a second.                *)
(***************************************************************************)
\* the on_update calls of one request
MaxChunks == 3

\* min_update_chars
min_update_chars == 25

\* min_update_interval, 0.3 s
min_update_interval == 3

\* the cut of a streamed text and of the final text
StreamingCut == 3500

FinalCut == 3800

Dots == <<".", ".", ".">>

NoError == ""

\* the chunks of a streamed answer: the one of the deployment test, with a
\* space at its end, and one of min_update_chars characters
StreamingChunk == <<"S", "t", "r", "e", "a", "m", "i", "n", "g", " ">>

LongChunk == [i \in 1..min_update_chars |-> "x"]

Chunks == {StreamingChunk, LongChunk}

\* time.time() between two callbacks: at once, or after 2 * min_update_interval
Gaps == {0, 2 * min_update_interval}

\* an answer that intelligent_complete returns without a call of on_update
Unstreamed == <<"s", "o", "r", "r", "y">>

\* _clean_text for a text without markdown and without think tags: strip()
CleanText(text) == Strip(text)

\* the prefix of an answer, by search_used
Prefix(search_used) == IF search_used THEN <<"web ", "Answer:">> ELSE <<"brain ", "Answer:">>

\* the text of a streamed edit
StreamedText(accumulated_text, search_used) ==
    LET cleaned_text == CleanText(accumulated_text)
        display_text == IF Len(cleaned_text) > StreamingCut
                        THEN Take(cleaned_text, StreamingCut) \o Dots
                        ELSE cleaned_text
    IN  Prefix(search_used) \o <<" ">> \o display_text

\* the text of the final edit
FinalText(final_answer, search_was_used) ==
    LET cleaned_text == CleanText(final_answer)
        cut == IF Len(cleaned_text) > FinalCut
               THEN Take(cleaned_text, FinalCut) \o Dots
               ELSE cleaned_text
    IN  Prefix(search_was_used) \o <<" ">> \o cut

\* the text of the error edit
ErrorText(e) == <<"Error generating answer: ", e>>

AnalyzingText == <<"Analyzing your question">>

SearchNeededText == <<"Search needed. Generating queries...">>

SearchingText == <<"Searching:">>

FoundText == <<"Found sources. Generating answer...">>

\* the throttle of on_update
ShouldUpdate(current_length, current_time, last_update_length, last_update_time) ==
    /\ current_length > last_update_length
    /\ \/ current_length - last_update_length >= min_update_chars
       \/ current_time - last_update_time >= min_update_interval * 2

\* the mutant of ShutdownCalls that forgets the cleanup
ShutdownCallsNone(h, shutdown_ok) == h

\* `try: await bot.shutdown() except Exception: logger.debug(...)`
ShutdownCalls(h, shutdown_ok) ==
    [h EXCEPT !.shutdowns = @ + 1,
              !.cleanupErrors = IF shutdown_ok THEN @ ELSE @ + 1]

\* `except Exception as e` of handle_text: the error edit, not guarded
ExceptClause(h, e, edit_ok) ==
    IF edit_ok
    THEN [h EXCEPT !.shown = ErrorText(e), !.lastEdit = ErrorText(e),
                   !.errorEdit = "applied", !.exc = NoError]
    ELSE [h EXCEPT !.lastEdit = ErrorText(e), !.errorEdit = "failed", !.exc = "edit failed"]

\* an edit scheduled on the main loop from the thread of intelligent_complete:
\* nobody looks at its future, the text is shown when the edit goes through
Scheduled(h, text, edit_ok) ==
    IF edit_ok THEN [h EXCEPT !.shown = text, !.lastEdit = text] ELSE [h EXCEPT !.lastEdit = text]

\* is_bot_mentioned: the text names the bot, whose username is known only
\* when bot.initialize() went through
IsBotMentioned(initialize_ok, names_bot) == initialize_ok /\ names_bot

UpdateKinds == {"bad json", "no update", "no text", "/start", "/help", "text"}

HookInit ==
    /\ hook = [pc |-> "received", bot |-> FALSE, exc |-> NoError,
               response |-> [status |-> "none", message |-> ""],
               shutdowns |-> 0, cleanupErrors |-> 0, shown |-> <<>>, lastEdit |-> <<>>,
               search_used |-> FALSE, searchStep |-> 0,
               accumulated_text |-> <<>>, last_update_length |-> 0, last_update_time |-> 0,
               now |-> 0, fed |-> 0, failed |-> FALSE, returned |-> FALSE, answer |-> <<>>,
               errorEdit |-> "none", sourcesMessage |-> "none"]
    /\ JudgeIdle /\ ExtractIdle /\ StreamIdle /\ MemoryIdle /\ RetrievalIdle /\ OrchIdle
    /\ SharedIdle /\ CiteIdle /\ ContextIdle /\ RetryIdle

HookOthers ==
    UNCHANGED <<judgeVars, extractVars, streamVars, memVars, retrVars, orchVars,
                shared, cite, context, retry>>

\* telegram_webhook up to the call of a handler: create_bot, request.json,
\* Update.de_json and the dispatch on the text of the message
Receive ==
    /\ hook.pc = "received"
    /\ \E token \in BOOLEAN, kind \in UpdateKinds :
           hook' =
               IF ~token
               THEN [hook EXCEPT !.pc = "cleanup",
                                 !.response = [status |-> "error", message |-> "Bot not configured"]]
               ELSE IF kind = "bad json"
               THEN [hook EXCEPT !.pc = "ending", !.bot = TRUE, !.exc = "bad json"]
               ELSE IF kind = "no update"
               THEN [hook EXCEPT !.pc = "cleanup", !.bot = TRUE,
                                 !.response = [status |-> "error", message |-> "Invalid update data"]]
               ELSE IF kind = "no text"
               THEN [hook EXCEPT !.pc = "ending", !.bot = TRUE]
               ELSE IF kind \in {"/start", "/help"}
               THEN [hook EXCEPT !.pc = "command", !.bot = TRUE]
               ELSE [hook EXCEPT !.pc = "text", !.bot = TRUE]
    /\ HookOthers

\* start and help_command: one send_message, not guarded
Command ==
    /\ hook.pc = "command"
    /\ \E send_ok \in BOOLEAN :
           hook' = IF send_ok
                   THEN [hook EXCEPT !.pc = "ending", !.shown = <<"Hello!">>]
                   ELSE [hook EXCEPT !.pc = "ending", !.exc = "send failed"]
    /\ HookOthers

\* handle_text up to the call of intelligent_complete: bot.initialize, the
\* group message that does not mention the bot, the status message
HandleTextBegins ==
    /\ hook.pc = "text"
    /\ \E initialize_ok \in BOOLEAN, is_group_chat \in BOOLEAN, names_bot \in BOOLEAN,
          send_ok \in BOOLEAN :
           hook' =
               IF is_group_chat /\ ~IsBotMentioned(initialize_ok, names_bot)
               THEN [hook EXCEPT !.pc = "ending"]
               ELSE IF ~send_ok
               THEN [hook EXCEPT !.pc = "ending", !.exc = "send failed"]
               ELSE [hook EXCEPT !.pc = "completing", !.shown = AnalyzingText,
                                 !.lastEdit = AnalyzingText,
                                 !.last_update_time = hook.now]
    /\ HookOthers

OnSearchStart ==
    /\ hook.pc = "completing" /\ hook.searchStep = 0 /\ hook.fed = 0
    /\ \E edit_ok \in BOOLEAN, gap \in Gaps :
           hook' = [Scheduled(hook, SearchNeededText, edit_ok)
                        EXCEPT !.search_used = TRUE, !.searchStep = 1, !.now = @ + gap]
    /\ HookOthers

OnSearchQueriesGenerated ==
    /\ hook.pc = "completing" /\ hook.searchStep = 1
    /\ \E edit_ok \in BOOLEAN :
           hook' = [Scheduled(hook, SearchingText, edit_ok) EXCEPT !.searchStep = 2]
    /\ HookOthers

OnSearchDone ==
    /\ hook.pc = "completing" /\ hook.searchStep = 2
    /\ \E edit_ok \in BOOLEAN :
           hook' = [Scheduled(hook, FoundText, edit_ok) EXCEPT !.searchStep = 3]
    /\ HookOthers

\* on_update(content), called by the thread of intelligent_complete
OnUpdate ==
    /\ hook.pc = "completing" /\ hook.searchStep \in {0, 3}
    /\ hook.fed < MaxChunks
    /\ \E content \in Chunks, gap \in Gaps, edit_ok \in BOOLEAN :
           LET accumulated_text == hook.accumulated_text \o content
               current_time == hook.now + gap
               current_length == Len(accumulated_text)
               should_update == ShouldUpdate(current_length, current_time,
                                             hook.last_update_length, hook.last_update_time)
               h == [hook EXCEPT !.accumulated_text = accumulated_text,
                                 !.now = current_time, !.fed = @ + 1]
           IN  hook' =
                   IF should_update
                   THEN [Scheduled(h, StreamedText(accumulated_text, hook.search_used), edit_ok)
                             EXCEPT !.last_update_length = current_length,
                                    !.last_update_time = current_time]
                   ELSE h
    /\ HookOthers

\* intelligent_complete raises: the except clause and the finally of handle_text
IntelligentCompleteRaises ==
    /\ hook.pc = "completing"
    /\ \E edit_ok \in BOOLEAN, shutdown_ok \in BOOLEAN :
           hook' = [ShutdownCalls(ExceptClause(hook, "Solar API error", edit_ok), shutdown_ok)
                        EXCEPT !.pc = "ending", !.failed = TRUE]
    /\ HookOthers

\* intelligent_complete returns: the final edit when nothing was streamed,
\* the message of the sources, the finally of handle_text
IntelligentCompleteReturns ==
    /\ hook.pc = "completing" /\ hook.searchStep \in {0, 3}
    /\ \E final_answer \in {hook.accumulated_text, Unstreamed},
          final_ok \in BOOLEAN, edit_ok \in BOOLEAN, shutdown_ok \in BOOLEAN,
          sources \in {"none", "sent", "plain", "failed"} :
           /\ sources # "none" => hook.search_used
           /\ LET h == [hook EXCEPT !.answer = final_answer, !.returned = TRUE]
                  edited ==
                      IF hook.accumulated_text # <<>>
                      THEN [h EXCEPT !.sourcesMessage = sources]
                      ELSE IF final_ok
                      THEN [h EXCEPT !.shown = FinalText(final_answer, hook.search_used),
                                     !.lastEdit = FinalText(final_answer, hook.search_used),
                                     !.sourcesMessage = sources]
                      ELSE ExceptClause([h EXCEPT !.lastEdit = FinalText(final_answer, hook.search_used)],
                                        "edit failed", edit_ok)
              IN  hook' = [ShutdownCalls(edited, shutdown_ok) EXCEPT !.pc = "ending"]
    /\ HookOthers

\* the end of the try block of telegram_webhook: `return {"status": "ok"}`,
\* or the except clause with the text of the error
WebhookEnds ==
    /\ hook.pc = "ending"
    /\ hook' = [hook EXCEPT !.pc = "cleanup",
                            !.response = IF hook.exc = NoError
                                         THEN [status |-> "ok", message |-> ""]
                                         ELSE [status |-> "error", message |-> hook.exc],
                            !.exc = NoError]
    /\ HookOthers

\* the finally of telegram_webhook, then the response goes out
WebhookCleansUp ==
    /\ hook.pc = "cleanup"
    /\ \E shutdown_ok \in BOOLEAN :
           hook' = [(IF hook.bot THEN ShutdownCalls(hook, shutdown_ok) ELSE hook)
                        EXCEPT !.pc = "responded"]
    /\ HookOthers

HookNext ==
    \/ Receive
    \/ Command
    \/ HandleTextBegins
    \/ OnSearchStart
    \/ OnSearchQueriesGenerated
    \/ OnSearchDone
    \/ OnUpdate
    \/ IntelligentCompleteRaises
    \/ IntelligentCompleteReturns
    \/ WebhookEnds
    \/ WebhookCleansUp

SpecHook == HookInit /\ [][HookNext]_vars

\* C31: telegram_webhook ends every request with a status response and lets
\* no error out; the bot it created has been shut down at least once when the
\* response goes out; and when intelligent_complete raised, the error edit of
\* the status message was made, shown to the user when it went through and
\* turned into the error response when it failed.
C31_AlwaysResponds ==
    /\ hook.pc # "responded" => hook.response.status \in {"none", "ok", "error"}
    /\ hook.pc = "responded" =>
           /\ hook.response.status \in {"ok", "error"}
           /\ hook.exc = NoError
           /\ hook.bot => hook.shutdowns >= 1
           /\ hook.failed =>
                  /\ hook.errorEdit \in {"applied", "failed"}
                  /\ hook.lastEdit = ErrorText("Solar API error")
                  /\ hook.errorEdit = "applied" =>
                         /\ hook.shown = ErrorText("Solar API error")
                         /\ hook.response.status = "ok"
                  /\ hook.errorEdit = "failed" =>
                         hook.response = [status |-> "error", message |-> "edit failed"]

\* intelligent_complete raised after a streamed chunk, the error edit failed
\* too, both cleanups ran, the second with an error, and the response went out
C31_Witness ==
    /\ hook.pc = "responded" /\ hook.failed /\ hook.fed > 0
    /\ hook.errorEdit = "failed"
    /\ hook.shutdowns = 2 /\ hook.cleanupErrors > 0
    /\ hook.response.status = "error"

\* a command whose send_message failed: the only cleanup is the one of
\* telegram_webhook
C31_CommandFailed ==
    /\ hook.pc = "responded" /\ hook.bot /\ hook.shutdowns = 1
    /\ hook.response = [status |-> "error", message |-> "send failed"]

\* handle_text went to its end with an answer that was streamed whole by
\* on_update, and no edit failed
StreamedWhole ==
    /\ hook.pc \in {"ending", "cleanup", "responded"}
    /\ hook.returned /\ hook.fed > 0
    /\ hook.answer = hook.accumulated_text
    /\ hook.shown = hook.lastEdit

\* C32: after handle_text has completed a request whose answer was streamed,
\* the last edit of the status message displays the whole answer.
C32_WholeAnswerShown ==
    StreamedWhole => hook.lastEdit = FinalText(hook.answer, hook.search_used)

\* what the code keeps: the whole answer is displayed when the last call of
\* on_update passed the throttle, or when nothing was streamed
C32_ShownWhenLastPassed ==
    /\ (StreamedWhole /\ hook.last_update_length = Len(hook.accumulated_text)) =>
           hook.lastEdit = FinalText(hook.answer, hook.search_used)
    /\ (hook.returned /\ hook.fed = 0 /\ hook.errorEdit = "none") =>
           hook.lastEdit = FinalText(hook.answer, hook.search_used)

\* the last chunk came under both thresholds: the message ends before it
C32_TailNotShown ==
    /\ StreamedWhole /\ hook.pc = "responded"
    /\ hook.answer = LongChunk \o StreamingChunk
    /\ hook.shown = StreamedText(LongChunk, FALSE)

\* one short chunk at once: the message is still the status of the beginning
C32_NothingShown ==
    /\ StreamedWhole /\ hook.pc = "responded"
    /\ hook.answer = StreamingChunk
    /\ hook.shown = AnalyzingText

====
